---- MODULE Spec2Model ----
(***************************************************************************)
(* skyink: text -> strokes -> simplified strokes -> ordered strokes ->     *)
(* 3D waypoints -> mission time.  The model follows                       *)
(*   src/path_simplifier.py   (PathSimplifier)                             *)
(*   src/path_transitions.py  (PathTransitionHandler)                      *)
(*   src/coord_transformer.py  (CoordinateTransformer)                     *)
(*   src/skyink/gui_server.py  (latest_mission, /preview, /generate)       *)
(* A point is <<x, y>> (a waypoint <<x, y, z>>) with integer coordinates,  *)
(* which float64 holds exactly; a tolerance is a rational <<num, den>>.    *)
(* Distances are compared by their squares, kept as exact rationals.       *)
(***************************************************************************)
EXTENDS Integers, Sequences, FiniteSets, TLC

VARIABLES
    pc,            \* position of the driver that calls the operations
    backend,       \* which simplify_coords the installed package provides
    points,        \* PathSimplifier.simplify_path: the argument
    epsilon,       \* PathSimplifier.epsilon
    keptIdx,       \* indices of points that simplify_path retained
    simplified,    \* simplify_path(points)
    resimplified,  \* simplify_path(simplified), same epsilon
    epsilon2,      \* the epsilon of a second PathSimplifier, epsilon2 >= epsilon
    coarser,       \* simplify_path(points) of that second simplifier
    paths,         \* PathTransitionHandler: the argument paths (the strokes)
    method,        \* optimize_stroke_order: the argument method
    ordered,       \* _nearest_neighbor_order: the local ordered
    remaining,     \* _nearest_neighbor_order: the local remaining
    result,        \* what optimize_stroke_order returned
    write_altitude,        \* PathTransitionHandler.write_altitude
    transit_altitude,      \* PathTransitionHandler.transit_altitude
    continuous_threshold,  \* add_transitions: the argument continuous_threshold
    waypoints_3d,          \* what add_transitions returned
    waypoints_default,     \* the same, from a handler with the default
                           \* transit offset and no continuous_threshold
    waypoints,             \* calculate_mission_time: the argument waypoints_3d
    flight_speed_m_s,      \* calculate_mission_time: the argument
    acceleration_m_s2,     \* calculate_mission_time: the argument
    estimate,              \* what calculate_mission_time returned
    cut,                   \* the waypoint the path is cut at
    head_estimate,         \* calculate_mission_time(waypoints up to the cut)
    tail_estimate,         \* calculate_mission_time(waypoints from the cut on)
    raised,                \* the exception the last call raised, "None" when
                           \* it returned
    angle_threshold,       \* corner detection: the threshold in degrees
    corner_indices,        \* what _detect_corners returned (0-based indices)
    preservedIdx,          \* simplify_with_corner_preservation: the input
                           \* positions (1-based) of the points it returned
    preserved,             \* what simplify_with_corner_preservation returned
    simplified_paths,      \* what simplify_paths returned
    transition_stats,      \* what calculate_transition_stats returned
    gps_path,              \* what path_to_gps returned
    rotation_deg,           \* the rotation of the CoordinateTransformer
    home,  \* CoordinateTransformer: home_lat, home_lon, home_alt
    local_xy,  \* local_to_gps: the arguments x and y
    altitude_m,  \* local_to_gps: the argument altitude
    gps_point,  \* what local_to_gps returned
    turns,  \* how often local_to_gps was called on its own rotated pair
    bbox,  \* what get_bounds returned
    heap,  \* the lists as objects, heap[a] the list at address a
    paths_ref,  \* the address of the caller's list of strokes
    returned,  \* the address of the list the operation returned
    op,  \* the operation that was called on the caller's lists
    latest_mission,  \* gui_server: the process-wide latest_mission
    requests,  \* the requests: kind, position in the handler, locals, response
    files  \* the mission files written

simplifierVars ==
    <<backend, points, epsilon, keptIdx, simplified, resimplified, epsilon2, coarser>>

orderVars == <<method, ordered, remaining, result>>

assembleVars ==
    <<write_altitude, transit_altitude, continuous_threshold, waypoints_3d,
      waypoints_default>>

timeVars ==
    <<waypoints, flight_speed_m_s, acceleration_m_s2, estimate, cut,
      head_estimate, tail_estimate>>

cornerVars == <<angle_threshold, corner_indices, preservedIdx, preserved>>

stageVars == <<simplified_paths, transition_stats, gps_path, rotation_deg>>

transformVars == <<home, local_xy, altitude_m, gps_point, turns, bbox>>

aliasVars == <<heap, paths_ref, returned, op>>

serverVars == <<latest_mission, requests, files>>

vars ==
    <<pc, raised, simplifierVars, paths, orderVars, assembleVars, timeVars,
      cornerVars, stageVars, transformVars, aliasVars, serverVars>>

----------------------------------------------------------------------------
(* Bounds of the model. *)

MaxLen == 4        \* longest polyline
GridWidth == 3     \* lattice points per row
GridPoints == 5    \* lattice points used, row by row from the origin
MaxEpsHalves == 3  \* epsilon in {0, 1/2, .., MaxEpsHalves/2}
StrokePoints == 3  \* lattice points the strokes are drawn over
MaxTotal == 5      \* most points in all strokes of a stroke set together
MaxAltitude == 1   \* write_altitude_m in 1..MaxAltitude
MaxOffset == 1     \* transit_altitude_offset_m in 1..MaxOffset
MaxSegs == 3       \* most segments of a waypoint path
StepKinds == 5     \* displacements a segment is drawn from
MaxSpeed == 2      \* flight_speed_m_s in 1..MaxSpeed
MaxAccel == 2      \* acceleration_m_s2 in 1..MaxAccel
StageTotal == 3    \* most points in a stroke set of the stages' driver
CornerGridPoints == 4  \* lattice points of the corner-preserving driver
MaxCoord == 1      \* local x and y in -MaxCoord..MaxCoord
MaxTurns == 4      \* most calls of local_to_gps on its own rotated pair
BoundsPoints == 3  \* points the paths of get_bounds are drawn over
BoundsPathCount == 2  \* most paths in the argument of get_bounds
MaxRequests == 3   \* requests handled one at a time
MaxThreads == 3    \* requests handled concurrently

Grid == {<<k % GridWidth, k \div GridWidth>> : k \in 0..(GridPoints - 1)}

Polylines == UNION {[1..n -> Grid] : n \in 0..MaxLen}

EpsSet == {<<n, 2>> : n \in 0..MaxEpsHalves}

\* (0,0), (1,0), (0,1), (1,1), (0,2), ..
StrokeGrid == {<<k % 2, k \div 2>> : k \in 0..(StrokePoints - 1)}

\* the points of all strokes of a stroke set, one after the other
FlatPaths == UNION {[1..n -> StrokeGrid] : n \in 0..MaxTotal}

\* P cut into consecutive non-empty strokes after the positions in C
RECURSIVE Split(_, _, _, _)
Split(P, C, start, i) ==
    IF i > Len(P) THEN <<>>
    ELSE IF i = Len(P) THEN <<SubSeq(P, start, i)>>
    ELSE IF i \in C THEN <<SubSeq(P, start, i)>> \o Split(P, C, i + 1, i + 1)
    ELSE Split(P, C, start, i + 1)

----------------------------------------------------------------------------
(* Exact arithmetic on squared distances. *)

Sq(n) == n * n

SqDist(p, q) == Sq(p[1] - q[1]) + Sq(p[2] - q[2])

\* twice the signed area of the triangle (point, start, end)
Cross(point, start, end) ==
    (start[2] - point[2]) * (end[1] - start[1])
        - (start[1] - point[1]) * (end[2] - start[2])

Dot(point, start, end) ==
    (point[1] - start[1]) * (end[1] - start[1])
        + (point[2] - start[2]) * (end[2] - start[2])

\* a < b, a > b, a >= b for non-negative rationals <<num, den>>, den > 0
RatLt(a, b) == a[1] * b[2] < b[1] * a[2]
RatGt(a, b) == RatLt(b, a)
RatGe(a, b) == ~RatLt(a, b)

\* square of the distance from point to the infinite line through start, end
PerpSqDist(point, start, end) ==
    IF start = end
    THEN <<SqDist(point, start), 1>>
    ELSE <<Sq(Cross(point, start, end)), SqDist(start, end)>>

\* square of the distance from point to the segment [start, end]
SegSqDist(point, start, end) ==
    IF start = end \/ Dot(point, start, end) <= 0
    THEN <<SqDist(point, start), 1>>
    ELSE IF Dot(point, start, end) >= SqDist(start, end)
    THEN <<SqDist(point, end), 1>>
    ELSE <<Sq(Cross(point, start, end)), SqDist(start, end)>>

\* distance > eps, the distance given by its square
ExceedsEps(d2, eps) ==
    eps[1] < 0 \/ d2[1] * Sq(eps[2]) > Sq(eps[1]) * d2[2]

----------------------------------------------------------------------------
(* simplification.cutil.simplify_coords, the Ramer-Douglas-Peucker routine  *)
(* that simplify_path calls.  setup.py asks for simplification>=0.7.0 and   *)
(* pins nothing above it, so the build decides which routine runs:          *)
(*   "rdp": the textbook routine: distance to the infinite line through the *)
(*          first and last point, the first of several farthest points is   *)
(*          the split point;                                                *)
(*   "geo": the routine of the geo crate: distance to the first-last        *)
(*          segment, the last of several farthest points is the split       *)
(*          point, and an epsilon <= 0 returns the input unaltered.         *)
(* Both return indices here; simplify_path turns them into points.          *)

Backends == {"rdp", "geo"}

Distance2(bk, point, start, end) ==
    IF bk = "geo" THEN SegSqDist(point, start, end)
    ELSE PerpSqDist(point, start, end)

\* the farthest interior point of P[lo..hi]: <<index, squared distance>>,
\* scanning i, i+1, .., hi-1 with best the farthest so far
RECURSIVE Farthest(_, _, _, _, _, _)
Farthest(bk, P, lo, hi, i, best) ==
    IF i >= hi THEN best
    ELSE LET d == Distance2(bk, P[i], P[lo], P[hi])
             take == IF bk = "geo" THEN RatGe(d, best[2]) ELSE RatGt(d, best[2])
         IN  Farthest(bk, P, lo, hi, i + 1, IF take THEN <<i, d>> ELSE best)

Front(s) == SubSeq(s, 1, Len(s) - 1)

\* Variants of compute_rdp with one slip each.
\* (a) the squared distance is compared with epsilon, not with its square
RECURSIVE compute_rdp_unsquared(_, _, _, _, _)
compute_rdp_unsquared(bk, P, lo, hi, eps) ==
    LET far == Farthest(bk, P, lo, hi, lo + 1, <<lo, <<0, 1>> >>)
    IN  IF far[1] > lo /\ far[2][1] * eps[2] > eps[1] * far[2][2]
        THEN Front(compute_rdp_unsquared(bk, P, lo, far[1], eps))
                 \o compute_rdp_unsquared(bk, P, far[1], hi, eps)
        ELSE <<lo, hi>>

\* (b) the scan stops one interior point early
RECURSIVE compute_rdp_shortscan(_, _, _, _, _)
compute_rdp_shortscan(bk, P, lo, hi, eps) ==
    LET far == Farthest(bk, P, lo, hi - 1, lo + 1, <<lo, <<0, 1>> >>)
        d   == IF far[1] > lo THEN Distance2(bk, P[far[1]], P[lo], P[hi]) ELSE <<0, 1>>
    IN  IF far[1] > lo /\ ExceedsEps(d, eps)
        THEN Front(compute_rdp_shortscan(bk, P, lo, far[1], eps))
                 \o compute_rdp_shortscan(bk, P, far[1], hi, eps)
        ELSE <<lo, hi>>

\* (c) the comparison with epsilon is inverted
RECURSIVE compute_rdp_inverted(_, _, _, _, _)
compute_rdp_inverted(bk, P, lo, hi, eps) ==
    LET far == Farthest(bk, P, lo, hi, lo + 1, <<lo, <<0, 1>> >>)
    IN  IF far[1] > lo /\ ~ExceedsEps(far[2], eps)
        THEN Front(compute_rdp_inverted(bk, P, lo, far[1], eps))
                 \o compute_rdp_inverted(bk, P, far[1], hi, eps)
        ELSE <<lo, hi>>

\* (d) the split point is not popped before the halves are joined
RECURSIVE compute_rdp_nopop(_, _, _, _, _)
compute_rdp_nopop(bk, P, lo, hi, eps) ==
    LET far == Farthest(bk, P, lo, hi, lo + 1, <<lo, <<0, 1>> >>)
    IN  IF far[1] > lo /\ ExceedsEps(far[2], eps)
        THEN compute_rdp_nopop(bk, P, lo, far[1], eps)
                 \o compute_rdp_nopop(bk, P, far[1], hi, eps)
        ELSE <<lo, hi>>

\* the recursion, over the slice P[lo..hi] (lo < hi): the indices kept
RECURSIVE compute_rdp(_, _, _, _, _)
compute_rdp(bk, P, lo, hi, eps) ==
    LET far == Farthest(bk, P, lo, hi, lo + 1, <<lo, <<0, 1>> >>)
    IN  IF far[1] > lo /\ ExceedsEps(far[2], eps)
        THEN Front(compute_rdp(bk, P, lo, far[1], eps))
                 \o compute_rdp(bk, P, far[1], hi, eps)
        ELSE <<lo, hi>>

simplify_coords(bk, P, eps) ==
    IF bk = "geo" /\ eps[1] <= 0
    THEN [i \in 1..Len(P) |-> i]
    ELSE compute_rdp(bk, P, 1, Len(P), eps)

----------------------------------------------------------------------------
(* class PathSimplifier *)

\* the indices of points that simplify_path returns
kept_indices(bk, P, eps) ==
    IF Len(P) < 3 THEN [i \in 1..Len(P) |-> i]
    ELSE simplify_coords(bk, P, eps)

\* simplify_path with the result list one element short
simplify_path_short(bk, P, eps) ==
    IF Len(P) < 3 THEN P
    ELSE LET idx == simplify_coords(bk, P, eps)
         IN  [i \in 1..(Len(idx) - 1) |-> P[idx[i]]]

simplify_path_dropshort(bk, P, eps) ==
    IF Len(P) < 3 THEN <<>>
    ELSE LET idx == simplify_coords(bk, P, eps)
         IN  [i \in 1..Len(idx) |-> P[idx[i]]]

simplify_path(bk, P, eps) ==
    IF Len(P) < 3 THEN P
    ELSE LET idx == simplify_coords(bk, P, eps)
         IN  [i \in 1..Len(idx) |-> P[idx[i]]]

simplify_paths(bk, strokes, eps) ==
    [i \in 1..Len(strokes) |-> simplify_path(bk, strokes[i], eps)]

----------------------------------------------------------------------------
(* The variables of the operations a specification does not drive. *)

SimplifierIdle ==
    /\ backend = "geo"
    /\ points = <<>>
    /\ epsilon = <<0, 2>>
    /\ keptIdx = <<>>
    /\ simplified = <<>>
    /\ resimplified = <<>>
    /\ epsilon2 = <<0, 2>>
    /\ coarser = <<>>

OrderIdle ==
    /\ method = "original"
    /\ ordered = <<>>
    /\ remaining = <<>>
    /\ result = <<>>

AssembleIdle ==
    /\ write_altitude = 0
    /\ transit_altitude = 0
    /\ continuous_threshold = "None"
    /\ waypoints_3d = <<>>
    /\ waypoints_default = <<>>

CornerIdle ==
    /\ angle_threshold = 30
    /\ corner_indices = <<>>
    /\ preservedIdx = <<>>
    /\ preserved = <<>>

NoStats ==
    [num_transitions |-> 0, total_transition_distance |-> {},
     avg_transition_distance |-> {}, max_transition_distance |-> {}]

StageIdle ==
    /\ simplified_paths = <<>>
    /\ transition_stats = NoStats
    /\ gps_path = <<>>
    /\ rotation_deg = 0

TransformIdle ==
    /\ home = [home_lat |-> 0, home_lon |-> 0, home_alt |-> 0]
    /\ local_xy = <<0, 0>>
    /\ altitude_m = 0
    /\ gps_point = <<>>
    /\ turns = 0
    /\ bbox = <<0, 0, 0, 0>>

AliasIdle ==
    /\ heap = <<>>
    /\ paths_ref = 0
    /\ returned = 0
    /\ op = "none"

ServerIdle ==
    /\ latest_mission = [waypoints |-> <<>>, plan_file |-> {},
                         stats |-> [text |-> "", total_waypoints |-> 0],
                         params |-> [present |-> FALSE, text |-> "", lat |-> ""]]
    /\ requests = <<>>
    /\ files = {}

NoEstimate == [total_time_s |-> {}, total_distance_m |-> <<0, 1>>]

TimeIdle ==
    /\ waypoints = <<>>
    /\ flight_speed_m_s = 1
    /\ acceleration_m_s2 = 1
    /\ estimate = NoEstimate
    /\ cut = 0
    /\ head_estimate = NoEstimate
    /\ tail_estimate = NoEstimate

----------------------------------------------------------------------------
(* The simplifier driven on one polyline: simplify it, simplify the result *)
(* again, and simplify the input with a second, coarser PathSimplifier.    *)

InitSimplify ==
    /\ pc = "start"
    /\ raised = "None"
    /\ backend \in Backends
    /\ points \in Polylines
    /\ epsilon \in EpsSet
    /\ keptIdx = <<>>
    /\ simplified = <<>>
    /\ resimplified = <<>>
    /\ epsilon2 = epsilon
    /\ coarser = <<>>
    /\ paths = <<>>
    /\ OrderIdle
    /\ AssembleIdle
    /\ StageIdle
    /\ TransformIdle
    /\ AliasIdle
    /\ ServerIdle
    /\ CornerIdle
    /\ TimeIdle

SimplifyPath ==
    /\ pc = "start"
    /\ simplified' = simplify_path(backend, points, epsilon)
    /\ keptIdx' = kept_indices(backend, points, epsilon)
    /\ pc' = "simplified"
    /\ UNCHANGED <<raised, backend, points, epsilon, resimplified, epsilon2, coarser>>
    /\ UNCHANGED <<raised, paths, orderVars, assembleVars, timeVars>>
    /\ UNCHANGED cornerVars
    /\ UNCHANGED stageVars
    /\ UNCHANGED transformVars
    /\ UNCHANGED aliasVars
    /\ UNCHANGED serverVars

SimplifyAgain ==
    /\ pc = "simplified"
    /\ resimplified' = simplify_path(backend, simplified, epsilon)
    /\ pc' = "again"
    /\ UNCHANGED <<raised, backend, points, epsilon, keptIdx, simplified, epsilon2, coarser>>
    /\ UNCHANGED <<raised, paths, orderVars, assembleVars, timeVars>>
    /\ UNCHANGED cornerVars
    /\ UNCHANGED stageVars
    /\ UNCHANGED transformVars
    /\ UNCHANGED aliasVars
    /\ UNCHANGED serverVars

SimplifyCoarser ==
    /\ pc = "again"
    /\ \E e2 \in EpsSet :
          /\ RatGe(e2, epsilon)
          /\ epsilon2' = e2
          /\ coarser' = simplify_path(backend, points, e2)
    /\ pc' = "done"
    /\ UNCHANGED <<raised, backend, points, epsilon, keptIdx, simplified, resimplified>>
    /\ UNCHANGED <<raised, paths, orderVars, assembleVars, timeVars>>
    /\ UNCHANGED cornerVars
    /\ UNCHANGED stageVars
    /\ UNCHANGED transformVars
    /\ UNCHANGED aliasVars
    /\ UNCHANGED serverVars

NextSimplify == SimplifyPath \/ SimplifyAgain \/ SimplifyCoarser

SpecSimplify == InitSimplify /\ [][NextSimplify]_vars

\* PathSimplifier(epsilon=...) stores what it is given: the tolerances of
\* EpsSet and their negatives
EpsArgs == EpsSet \cup {<<-n, 2>> : n \in 1..MaxEpsHalves}

InitSimplifyArgs ==
    /\ pc = "start"
    /\ raised = "None"
    /\ backend \in Backends
    /\ points \in Polylines
    /\ epsilon \in EpsArgs
    /\ keptIdx = <<>>
    /\ simplified = <<>>
    /\ resimplified = <<>>
    /\ epsilon2 = epsilon
    /\ coarser = <<>>
    /\ paths = <<>>
    /\ OrderIdle
    /\ AssembleIdle
    /\ StageIdle
    /\ TransformIdle
    /\ AliasIdle
    /\ ServerIdle
    /\ CornerIdle
    /\ TimeIdle

SpecSimplifyArgs == InitSimplifyArgs /\ [][NextSimplify]_vars

----------------------------------------------------------------------------
(* class PathTransitionHandler: optimize_stroke_order and                  *)
(* _nearest_neighbor_order.  _point_distance is a square root of a sum of  *)
(* squares; the loop only compares distances, and the model compares their *)
(* squares.                                                                *)

Methods == {"nearest_neighbor", "original"}

Inf == -1    \* float('inf'): below() holds of every distance against it

below(dist, min_dist) == min_dist = Inf \/ dist < min_dist

Reverse(s) == [i \in 1..Len(s) |-> s[Len(s) + 1 - i]]

RemoveAt(s, i) == SubSeq(s, 1, i - 1) \o SubSeq(s, i + 1, Len(s))

\* scan_step with <= for <: the later of two equally near strokes wins
scan_step_lastwins(current_end, path, i, st) ==
    LET dist         == SqDist(current_end, path[1])
        dist_reverse == SqDist(current_end, path[Len(path)])
    IN  IF dist_reverse < dist
        THEN (IF st[1] = Inf \/ dist_reverse <= st[1]
              THEN <<dist_reverse, -i - 1>> ELSE st)
        ELSE (IF st[1] = Inf \/ dist <= st[1] THEN <<dist, i>> ELSE st)

\* one pass of the for loop at index i (0-based, as enumerate counts):
\* st = <<min_dist, nearest_idx>>
scan_step(current_end, path, i, st) ==
    LET dist         == SqDist(current_end, path[1])
        dist_reverse == SqDist(current_end, path[Len(path)])
    IN  IF dist_reverse < dist
        THEN (IF below(dist_reverse, st[1]) THEN <<dist_reverse, -i - 1>> ELSE st)
        ELSE (IF below(dist, st[1]) THEN <<dist, i>> ELSE st)

\* the for loop over enumerate(remaining), from index i on
RECURSIVE scan(_, _, _, _)
scan(current_end, rem, i, st) ==
    IF i >= Len(rem) THEN st
    ELSE scan(current_end, rem, i + 1, scan_step(current_end, rem[i + 1], i, st))

\* nearest_idx after the for loop; negative means reverse
nearest_idx_of(ord, rem) ==
    LET current_end == ord[Len(ord)][Len(ord[Len(ord)])]
    IN  scan(current_end, rem, 0, <<Inf, 0>>)[2]

\* "Add nearest path": <<ordered, remaining>> after the append and the pop
\* with the reversed stroke popped at the undecoded, negative index
add_nearest_rawpop(ord, rem, nearest_idx) ==
    IF nearest_idx < 0
    THEN LET path_idx == -nearest_idx - 1
         IN  <<Append(ord, Reverse(rem[path_idx + 1])),
               RemoveAt(rem, Len(rem) + nearest_idx + 1)>>
    ELSE <<Append(ord, rem[nearest_idx + 1]), RemoveAt(rem, nearest_idx + 1)>>

add_nearest(ord, rem, nearest_idx) ==
    IF nearest_idx < 0
    THEN LET path_idx == -nearest_idx - 1
         IN  <<Append(ord, Reverse(rem[path_idx + 1])), RemoveAt(rem, path_idx + 1)>>
    ELSE <<Append(ord, rem[nearest_idx + 1]), RemoveAt(rem, nearest_idx + 1)>>

InitOrder ==
    /\ pc = "start"
    /\ raised = "None"
    /\ \E P \in FlatPaths : \E C \in SUBSET (1..(Len(P) - 1)) :
          paths = Split(P, C, 1, 1)
    /\ method = "original"
    /\ ordered = <<>>
    /\ remaining = <<>>
    /\ result = <<>>
    /\ SimplifierIdle
    /\ AssembleIdle
    /\ StageIdle
    /\ TransformIdle
    /\ AliasIdle
    /\ ServerIdle
    /\ CornerIdle
    /\ TimeIdle

\* optimize_stroke_order(paths, m) returning its argument
OptimizeReturnsInput ==
    /\ pc = "start"
    /\ \E m \in Methods :
          /\ m = "original" \/ Len(paths) <= 1 \/ m # "nearest_neighbor"
          /\ method' = m
    /\ result' = paths
    /\ pc' = "done"
    /\ UNCHANGED <<raised, simplifierVars, assembleVars, timeVars, paths, ordered, remaining>>
    /\ UNCHANGED cornerVars
    /\ UNCHANGED stageVars
    /\ UNCHANGED transformVars
    /\ UNCHANGED aliasVars
    /\ UNCHANGED serverVars

\* optimize_stroke_order(paths, 'nearest_neighbor') entering
\* _nearest_neighbor_order, up to the loop
NearestNeighborStart ==
    /\ pc = "start"
    /\ Len(paths) > 1
    /\ method' = "nearest_neighbor"
    /\ ordered' = <<paths[1]>>
    /\ remaining' = Tail(paths)
    /\ pc' = "loop"
    /\ UNCHANGED <<raised, simplifierVars, assembleVars, timeVars, paths, result>>
    /\ UNCHANGED cornerVars
    /\ UNCHANGED stageVars
    /\ UNCHANGED transformVars
    /\ UNCHANGED aliasVars
    /\ UNCHANGED serverVars

\* one iteration of "while remaining"
NearestNeighborStep ==
    /\ pc = "loop"
    /\ remaining # <<>>
    /\ LET next == add_nearest(ordered, remaining, nearest_idx_of(ordered, remaining))
       IN  /\ ordered' = next[1]
           /\ remaining' = next[2]
    /\ UNCHANGED <<raised, pc, simplifierVars, assembleVars, timeVars, paths, method, result>>
    /\ UNCHANGED cornerVars
    /\ UNCHANGED stageVars
    /\ UNCHANGED transformVars
    /\ UNCHANGED aliasVars
    /\ UNCHANGED serverVars

NearestNeighborReturn ==
    /\ pc = "loop"
    /\ remaining = <<>>
    /\ result' = ordered
    /\ pc' = "done"
    /\ UNCHANGED <<raised, simplifierVars, assembleVars, timeVars, paths, method, ordered, remaining>>
    /\ UNCHANGED cornerVars
    /\ UNCHANGED stageVars
    /\ UNCHANGED transformVars
    /\ UNCHANGED aliasVars
    /\ UNCHANGED serverVars

NextOrder ==
    \/ OptimizeReturnsInput
    \/ NearestNeighborStart
    \/ NearestNeighborStep
    \/ NearestNeighborReturn

SpecOrder == InitOrder /\ [][NextOrder]_vars

----------------------------------------------------------------------------
(* class PathTransitionHandler: __init__ and add_transitions *)

DefaultTransitOffset == 10    \* transit_altitude_offset_m=10

\* __init__(write_altitude_m, transit_altitude_offset_m): the fields
Handler(write_altitude_m, transit_altitude_offset_m) ==
    [write_altitude   |-> write_altitude_m,
     transit_altitude |-> write_altitude_m + transit_altitude_offset_m]

\* values passed as continuous_threshold: nothing (the default), float('inf')
Thresholds == {"None", "inf"}

\* the body of "for i, path in enumerate(paths)" from stroke i (1-based) on,
\* acc the list waypoints_3d so far
RECURSIVE transitions_loop_transit(_, _, _, _)
transitions_loop_transit(self, strokes, i, acc) ==
    IF i > Len(strokes) THEN acc
    ELSE LET path == strokes[i]
             dup  == /\ i > 1 /\ strokes[i - 1] # <<>>
                     /\ strokes[i - 1][Len(strokes[i - 1])][1] = path[1][1]
                     /\ strokes[i - 1][Len(strokes[i - 1])][2] = path[1][2]
             start_idx == IF dup THEN 1 ELSE 0
             lift(k) == IF i > 1 /\ ~dup /\ k = 1 THEN self.transit_altitude
                        ELSE self.write_altitude
         IN  IF path = <<>>
             THEN transitions_loop_transit(self, strokes, i + 1, acc)
             ELSE transitions_loop_transit(self, strokes, i + 1,
                      acc \o [k \in 1..(Len(path) - start_idx) |->
                                 <<path[k + start_idx][1], path[k + start_idx][2],
                                   lift(k)>>])

RECURSIVE transitions_loop_xonly(_, _, _, _)
transitions_loop_xonly(self, strokes, i, acc) ==
    IF i > Len(strokes) THEN acc
    ELSE LET path == strokes[i]
             start_idx ==
                 IF /\ i > 1 /\ strokes[i - 1] # <<>>
                    /\ strokes[i - 1][Len(strokes[i - 1])][1] = path[1][1]
                 THEN 1 ELSE 0
         IN  IF path = <<>>
             THEN transitions_loop_xonly(self, strokes, i + 1, acc)
             ELSE transitions_loop_xonly(self, strokes, i + 1,
                      acc \o [k \in 1..(Len(path) - start_idx) |->
                                 <<path[k + start_idx][1], path[k + start_idx][2],
                                   self.write_altitude>>])

\* transitions_loop without the skip of a duplicate leading point
RECURSIVE transitions_loop_keepjoin(_, _, _, _)
transitions_loop_keepjoin(self, strokes, i, acc) ==
    IF i > Len(strokes) THEN acc
    ELSE LET path == strokes[i]
         IN  transitions_loop_keepjoin(self, strokes, i + 1,
                 acc \o [k \in 1..Len(path) |->
                            <<path[k][1], path[k][2], self.write_altitude>>])

RECURSIVE transitions_loop(_, _, _, _)
transitions_loop(self, strokes, i, acc) ==
    IF i > Len(strokes) THEN acc
    ELSE LET path == strokes[i]
             start_idx ==
                 IF /\ i > 1 /\ strokes[i - 1] # <<>>
                    /\ strokes[i - 1][Len(strokes[i - 1])][1] = path[1][1]
                    /\ strokes[i - 1][Len(strokes[i - 1])][2] = path[1][2]
                 THEN 1 ELSE 0
         IN  IF path = <<>>
             THEN transitions_loop(self, strokes, i + 1, acc)
             ELSE transitions_loop(self, strokes, i + 1,
                      acc \o [k \in 1..(Len(path) - start_idx) |->
                                 <<path[k + start_idx][1], path[k + start_idx][2],
                                   self.write_altitude>>])

add_transitions_home(self, strokes, threshold) ==
    transitions_loop(self, strokes, 1, << <<0, 0, self.write_altitude>> >>)

add_transitions(self, strokes, threshold) ==
    IF strokes = <<>> THEN <<>>
    ELSE transitions_loop(self, strokes, 1, <<>>)

\* the strokes of the module's demonstration
test_paths ==
    << << <<0, 0>>, <<10, 0>>, <<10, 10>> >>,
       << <<20, 0>>, <<20, 10>>, <<30, 10>> >>,
       << <<40, 0>>, <<40, 10>> >> >>

InitAssemble ==
    /\ pc = "start"
    /\ raised = "None"
    /\ \E P \in FlatPaths : \E C \in SUBSET (1..(Len(P) - 1)) :
          paths = Split(P, C, 1, 1)
    /\ SimplifierIdle
    /\ OrderIdle
    /\ AssembleIdle
    /\ StageIdle
    /\ TransformIdle
    /\ AliasIdle
    /\ ServerIdle
    /\ CornerIdle
    /\ TimeIdle

\* a handler is constructed and add_transitions called on paths; a handler
\* with the same write altitude and the defaults is called on them as well
AddTransitions ==
    /\ pc = "start"
    /\ \E w \in 1..MaxAltitude, off \in 1..MaxOffset, thr \in Thresholds :
          /\ write_altitude' = Handler(w, off).write_altitude
          /\ transit_altitude' = Handler(w, off).transit_altitude
          /\ continuous_threshold' = thr
          /\ waypoints_3d' = add_transitions(Handler(w, off), paths, thr)
          /\ waypoints_default' =
                 add_transitions(Handler(w, DefaultTransitOffset), paths, "None")
    /\ pc' = "assembled"
    /\ UNCHANGED <<raised, simplifierVars, orderVars, timeVars, paths>>
    /\ UNCHANGED cornerVars
    /\ UNCHANGED stageVars
    /\ UNCHANGED transformVars
    /\ UNCHANGED aliasVars
    /\ UNCHANGED serverVars

NextAssemble == AddTransitions

SpecAssemble == InitAssemble /\ [][NextAssemble]_vars

----------------------------------------------------------------------------
(* PathTransitionHandler.calculate_mission_time.  Its arithmetic is done
   exactly: a distance is a rational <<n, d>> in lowest terms with d > 0, and
   a time, which the triangular profile makes a square root, is a sum of
   rational multiples of square roots of squarefree integers, the set of
   its terms <<f, c>> (c a nonzero rational, the term c * sqrt(f)).  The
   waypoint paths are walks of displacements of integer length, so that each
   segment's dist is exact.  total_time_formatted, a rendering of
   total_time_s, is left out. *)

Abs(n) == IF n < 0 THEN -n ELSE n

RECURSIVE GCD(_, _)
GCD(m, n) == IF n = 0 THEN m ELSE GCD(n, m % n)

Rat(n, d) ==
    LET g == GCD(Abs(n), Abs(d))
        s == IF d < 0 THEN -1 ELSE 1
    IN  <<(s * n) \div g, (s * d) \div g>>

RatAdd(r, q) == Rat(r[1] * q[2] + q[1] * r[2], r[2] * q[2])
RatSub(r, q) == Rat(r[1] * q[2] - q[1] * r[2], r[2] * q[2])
RatMul(r, q) == Rat(r[1] * q[1], r[2] * q[2])
RatDiv(r, q) == Rat(r[1] * q[2], r[2] * q[1])
RatLe(r, q)  == r[1] * q[2] <= q[1] * r[2]

\* np.sqrt of an integer that is a perfect square
IntSqrt(n) == CHOOSE r \in 0..n : r * r = n

\* the largest s with s * s dividing n (n >= 1)
SquarePart(n) ==
    CHOOSE s \in 1..n :
        /\ n % (s * s) = 0
        /\ \A t \in (s + 1)..n : n % (t * t) # 0

SurdOfRat(r) == IF r[1] = 0 THEN {} ELSE {<<1, r>>}

\* np.sqrt of a rational r >= 0: sqrt(n/d) = (s/d) * sqrt(f), n*d = s*s*f
SurdSqrt(r) ==
    IF r[1] = 0 THEN {}
    ELSE LET s == SquarePart(r[1] * r[2])
         IN  {<< (r[1] * r[2]) \div (s * s), Rat(s, r[2]) >>}

SurdScale(k, x) ==
    IF k[1] = 0 THEN {} ELSE {<<t[1], RatMul(k, t[2])>> : t \in x}

SurdCoef(x, f) ==
    IF \E t \in x : t[1] = f THEN (CHOOSE t \in x : t[1] = f)[2] ELSE <<0, 1>>

SurdAdd(x, y) ==
    {t \in {<<f, RatAdd(SurdCoef(x, f), SurdCoef(y, f))>> :
                f \in {u[1] : u \in x \cup y}} : t[2][1] # 0}

\* dist = np.sqrt((curr[0]-prev[0])**2 + (curr[1]-prev[1])**2 + (curr[2]-prev[2])**2)
segment_dist(prev, curr) ==
    <<IntSqrt(Sq(curr[1] - prev[1]) + Sq(curr[2] - prev[2])
                + Sq(curr[3] - prev[3])), 1>>

segment_time_nodecel(dist, v, a) ==
    LET t_accel == RatDiv(<<v, 1>>, <<a, 1>>)
        d_accel == RatMul(<<1, 2>>, RatMul(<<a, 1>>, RatMul(t_accel, t_accel)))
        t_decel == t_accel
        d_decel == d_accel
    IN  IF RatLe(dist, RatAdd(d_accel, d_decel))
        THEN SurdScale(<<2, 1>>, SurdSqrt(RatDiv(dist, <<a, 1>>)))
        ELSE LET d_cruise == RatSub(dist, d_accel)
                 t_cruise == RatDiv(d_cruise, <<v, 1>>)
             IN  SurdOfRat(RatAdd(RatAdd(t_accel, t_cruise), t_decel))

segment_time_noturn(dist, v, a) ==
    LET t_accel == RatDiv(<<v, 1>>, <<a, 1>>)
        d_accel == RatMul(<<1, 2>>, RatMul(<<a, 1>>, RatMul(t_accel, t_accel)))
        t_decel == t_accel
        d_decel == d_accel
    IN  IF RatLe(dist, RatAdd(d_accel, d_decel))
        THEN SurdSqrt(RatDiv(RatMul(<<2, 1>>, dist), <<a, 1>>))
        ELSE LET d_cruise == RatSub(RatSub(dist, d_accel), d_decel)
                 t_cruise == RatDiv(d_cruise, <<v, 1>>)
             IN  SurdOfRat(RatAdd(RatAdd(t_accel, t_cruise), t_decel))

\* the body of the loop from t_accel to segment_time, for one segment
segment_time(dist, v, a) ==
    LET t_accel == RatDiv(<<v, 1>>, <<a, 1>>)
        d_accel == RatMul(<<1, 2>>, RatMul(<<a, 1>>, RatMul(t_accel, t_accel)))
        t_decel == t_accel
        d_decel == d_accel
    IN  IF RatLe(dist, RatAdd(d_accel, d_decel))
        THEN SurdScale(<<2, 1>>, SurdSqrt(RatDiv(dist, <<a, 1>>)))
        ELSE LET d_cruise == RatSub(RatSub(dist, d_accel), d_decel)
                 t_cruise == RatDiv(d_cruise, <<v, 1>>)
             IN  SurdOfRat(RatAdd(RatAdd(t_accel, t_cruise), t_decel))

\* "for i in range(1, len(waypoints_3d))" from segment i on (wps is 1-based,
\* segment i joins wps[i] and wps[i + 1])
RECURSIVE mission_loop(_, _, _, _, _, _)
mission_loop(wps, v, a, i, total_time, total_distance) ==
    IF i >= Len(wps)
    THEN [total_time_s |-> total_time, total_distance_m |-> total_distance]
    ELSE LET dist == segment_dist(wps[i], wps[i + 1])
         IN  mission_loop(wps, v, a, i + 1,
                          SurdAdd(total_time, segment_time(dist, v, a)),
                          RatAdd(total_distance, dist))

calculate_mission_time(wps, v, a) ==
    IF Len(wps) <= 1
    THEN [total_time_s |-> {}, total_distance_m |-> <<0, 1>>]
    ELSE mission_loop(wps, v, a, 1, {}, <<0, 1>>)

\* The exceptions a call can end with, "None" for a call that returns.  With
\* acceleration 0 the first "flight_speed_m_s / acceleration_m_s2" raises.
\* With speed 0 a segment of positive length is no "short segment"
\* (d_accel = 0), its "d_cruise / flight_speed_m_s" is numpy's inf, and so
\* is total_time; "int(total_time // 60)" then raises ValueError or
\* OverflowError, as the numpy at hand makes inf // 60 nan or inf.  Nothing
\* else in the function raises: a negative argument is computed with.
mission_time_raises_hoisted(wps, v, a) ==
    IF a = 0 THEN {"ZeroDivisionError"}
    ELSE IF Len(wps) <= 1 THEN {"None"}
    ELSE IF v = 0 /\ \E i \in 1..(Len(wps) - 1) :
                        segment_dist(wps[i], wps[i + 1])[1] > 0
    THEN {"ValueError", "OverflowError"}
    ELSE {"None"}

mission_time_raises(wps, v, a) ==
    IF Len(wps) <= 1 THEN {"None"}
    ELSE IF a = 0 THEN {"ZeroDivisionError"}
    ELSE IF v = 0 /\ \E i \in 1..(Len(wps) - 1) :
                        segment_dist(wps[i], wps[i + 1])[1] > 0
    THEN {"ValueError", "OverflowError"}
    ELSE {"None"}

\* the displacements of integer length a segment is drawn from
StepList ==
    << <<1, 0, 0>>, <<0, -2, 0>>, <<2, 1, -2>>, <<0, 3, 4>>, <<0, 0, 0>>,
       <<0, 0, 4>>, <<-3, 0, 0>> >>

Steps == {StepList[i] : i \in 1..StepKinds}

RECURSIVE Walk(_, _)
Walk(from, st) ==
    IF st = <<>> THEN <<from>>
    ELSE <<from>> \o Walk(<<from[1] + st[1][1], from[2] + st[1][2],
                            from[3] + st[1][3]>>, Tail(st))

WaypointPaths ==
    {<<>>} \cup {Walk(<<0, 0, 0>>, st) :
                     st \in UNION {[1..n -> Steps] : n \in 0..MaxSegs}}

TimeStart ==
    /\ pc = "start"
    /\ raised = "None"
    /\ waypoints \in WaypointPaths
    /\ estimate = NoEstimate
    /\ cut = 0
    /\ head_estimate = NoEstimate
    /\ tail_estimate = NoEstimate
    /\ paths = <<>>
    /\ SimplifierIdle
    /\ OrderIdle
    /\ AssembleIdle
    /\ StageIdle
    /\ TransformIdle
    /\ AliasIdle
    /\ ServerIdle
    /\ CornerIdle

\* any speed and acceleration, zero and negative ones as well
InitTimeArgs ==
    /\ TimeStart
    /\ flight_speed_m_s \in (-MaxSpeed)..MaxSpeed
    /\ acceleration_m_s2 \in (-MaxAccel)..MaxAccel

InitTime ==
    /\ pc = "start"
    /\ raised = "None"
    /\ waypoints \in WaypointPaths
    /\ flight_speed_m_s \in 1..MaxSpeed
    /\ acceleration_m_s2 \in 1..MaxAccel
    /\ estimate = NoEstimate
    /\ cut = 0
    /\ head_estimate = NoEstimate
    /\ tail_estimate = NoEstimate
    /\ paths = <<>>
    /\ SimplifierIdle
    /\ OrderIdle
    /\ AssembleIdle
    /\ StageIdle
    /\ TransformIdle
    /\ AliasIdle
    /\ ServerIdle
    /\ CornerIdle

CalculateMissionTime ==
    /\ pc = "start"
    /\ raised' \in mission_time_raises(waypoints, flight_speed_m_s,
                                        acceleration_m_s2)
    /\ estimate' = IF raised' # "None" THEN estimate
                   ELSE calculate_mission_time(waypoints, flight_speed_m_s,
                                               acceleration_m_s2)
    /\ pc' = "timed"
    /\ UNCHANGED <<simplifierVars, orderVars, assembleVars, paths, waypoints,
                   flight_speed_m_s, acceleration_m_s2, cut, head_estimate,
                   tail_estimate>>
    /\ UNCHANGED cornerVars
    /\ UNCHANGED stageVars
    /\ UNCHANGED transformVars
    /\ UNCHANGED aliasVars
    /\ UNCHANGED serverVars

\* the same path cut at one of its waypoints, each part estimated on its own
EstimateParts ==
    /\ pc = "timed"
    /\ raised = "None"
    /\ \E k \in 1..Len(waypoints) :
          /\ cut' = k
          /\ head_estimate' =
                 calculate_mission_time(SubSeq(waypoints, 1, k),
                                        flight_speed_m_s, acceleration_m_s2)
          /\ tail_estimate' =
                 calculate_mission_time(SubSeq(waypoints, k, Len(waypoints)),
                                        flight_speed_m_s, acceleration_m_s2)
    /\ pc' = "cut"
    /\ UNCHANGED <<raised, simplifierVars, orderVars, assembleVars, paths, waypoints,
                   flight_speed_m_s, acceleration_m_s2, estimate>>
    /\ UNCHANGED cornerVars
    /\ UNCHANGED stageVars
    /\ UNCHANGED transformVars
    /\ UNCHANGED aliasVars
    /\ UNCHANGED serverVars

NextTime == CalculateMissionTime \/ EstimateParts

SpecTime == InitTime /\ [][NextTime]_vars

SpecTimeArgs == InitTimeArgs /\ [][NextTime]_vars

----------------------------------------------------------------------------
(* PathSimplifier._detect_corners and simplify_with_corner_preservation.
   The angle at a point is compared with the threshold through its cosine:
   arccos decreases, so angle_deg > angle_threshold exactly when cos_angle is
   below the threshold's cosine, and a cosine is held as the rational
   sign(c) * c * c, which keeps the order.  Indices are 0-based as in the
   source; a point of index i is P[i + 1]. *)

DefaultCornerThreshold == 30    \* corner_angle_threshold=30

\* thresholds a caller may pass, in degrees
AngleThresholds == {-30, DefaultCornerThreshold, 90, 150}

\* sign(cos t) * cos(t)^2 for t degrees
CosSq(deg) ==
    CASE deg = 0   -> <<1, 1>>
      [] deg = 30  -> <<3, 4>>
      [] deg = 45  -> <<1, 2>>
      [] deg = 60  -> <<1, 4>>
      [] deg = 90  -> <<0, 1>>
      [] deg = 120 -> <<-1, 4>>
      [] deg = 135 -> <<-1, 2>>
      [] deg = 150 -> <<-3, 4>>
      [] deg = 180 -> <<-1, 1>>

Minus(p, q) == <<p[1] - q[1], p[2] - q[2]>>

NormSq(v) == Sq(v[1]) + Sq(v[2])

\* cos_angle = np.dot(v1, v2) / (v1_norm * v2_norm), as sign(c) * c * c
cos_angle(v1, v2) ==
    LET d == v1[1] * v2[1] + v1[2] * v2[2]
    IN  <<(IF d < 0 THEN -1 ELSE 1) * d * d, NormSq(v1) * NormSq(v2)>>

\* angle_deg > angle_threshold, angle_deg in [0, 180]
angle_exceeds(v1, v2, deg) ==
    \/ deg < 0
    \/ deg < 180 /\ RatLt(cos_angle(v1, v2), CosSq(deg))

RECURSIVE corners_loop_degenerate(_, _, _, _)
corners_loop_degenerate(P, deg, i, corners) ==
    IF i > Len(P) - 2 THEN corners
    ELSE LET p1 == P[i]
             p2 == P[i + 1]
             p3 == P[i + 2]
             v1 == Minus(p1, p2)
             v2 == Minus(p3, p2)
         IN  IF NormSq(v1) = 0 \/ NormSq(v2) = 0
             THEN corners_loop_degenerate(P, deg, i + 1, Append(corners, i))
             ELSE IF angle_exceeds(v1, v2, deg)
             THEN corners_loop_degenerate(P, deg, i + 1, Append(corners, i))
             ELSE corners_loop_degenerate(P, deg, i + 1, corners)

\* "for i in range(1, len(points) - 1)" from index i on
RECURSIVE corners_loop(_, _, _, _)
corners_loop(P, deg, i, corners) ==
    IF i > Len(P) - 2 THEN corners
    ELSE LET p1 == P[i]
             p2 == P[i + 1]
             p3 == P[i + 2]
             v1 == Minus(p1, p2)
             v2 == Minus(p3, p2)
         IN  IF NormSq(v1) = 0 \/ NormSq(v2) = 0
             THEN corners_loop(P, deg, i + 1, corners)
             ELSE IF angle_exceeds(v1, v2, deg)
             THEN corners_loop(P, deg, i + 1, Append(corners, i))
             ELSE corners_loop(P, deg, i + 1, corners)

detect_corners(P, angle_thr) == corners_loop(P, angle_thr, 1, <<>>)

Min(m, n) == IF m < n THEN m ELSE n

RECURSIVE Flatten(_)
Flatten(segs) == IF segs = <<>> THEN <<>> ELSE Head(segs) \o Flatten(Tail(segs))

RECURSIVE preserve_loop_nodedupe(_, _, _, _, _, _, _)
preserve_loop_nodedupe(bk, P, eps, bounds, k, start_idx, segments) ==
    IF k > Len(bounds) THEN Flatten(segments)
    ELSE LET corner_idx == bounds[k]
             stop    == Min(corner_idx + 1, Len(P))
             segment == [j \in 1..(stop - start_idx) |-> P[start_idx + j]]
             simplified_segment ==
                 LET idx == kept_indices(bk, segment, eps)
                 IN  [j \in 1..Len(idx) |-> start_idx + idx[j] - 1]
         IN  IF Len(segment) >= 2
             THEN preserve_loop_nodedupe(bk, P, eps, bounds, k + 1, corner_idx,
                      Append(segments, simplified_segment))
             ELSE preserve_loop_nodedupe(bk, P, eps, bounds, k + 1, corner_idx,
                                         segments)

\* "for corner_idx in corner_indices + [len(points)]" from the k-th of these
\* on; segments holds, for each simplified segment appended, the indices in
\* points of its points
RECURSIVE preserve_loop(_, _, _, _, _, _, _)
preserve_loop(bk, P, eps, bounds, k, start_idx, segments) ==
    IF k > Len(bounds) THEN Flatten(segments)
    ELSE LET corner_idx == bounds[k]
             stop    == Min(corner_idx + 1, Len(P))
             segment == [j \in 1..(stop - start_idx) |-> P[start_idx + j]]
             simplified_segment ==
                 LET idx == kept_indices(bk, segment, eps)
                 IN  [j \in 1..Len(idx) |-> start_idx + idx[j] - 1]
         IN  IF Len(segment) >= 2
             THEN preserve_loop(bk, P, eps, bounds, k + 1, corner_idx,
                      Append(segments,
                             IF segments # <<>> /\ Len(simplified_segment) > 0
                             THEN Tail(simplified_segment)
                             ELSE simplified_segment))
             ELSE preserve_loop(bk, P, eps, bounds, k + 1, corner_idx, segments)

preserved_indices_unsimplified(bk, P, eps, angle_thr) ==
    IF Len(P) < 3 THEN [i \in 1..Len(P) |-> i - 1]
    ELSE LET corners == detect_corners(P, angle_thr)
         IN  IF corners = <<>>
             THEN [i \in 1..Len(P) |-> i - 1]
             ELSE preserve_loop(bk, P, eps, corners \o <<Len(P)>>, 1, 0, <<>>)

\* the indices (0-based) in points of the points the method returns
preserved_indices(bk, P, eps, angle_thr) ==
    IF Len(P) < 3 THEN [i \in 1..Len(P) |-> i - 1]
    ELSE LET corners == detect_corners(P, angle_thr)
         IN  IF corners = <<>>
             THEN LET idx == kept_indices(bk, P, eps)
                  IN  [j \in 1..Len(idx) |-> idx[j] - 1]
             ELSE preserve_loop(bk, P, eps, corners \o <<Len(P)>>, 1, 0, <<>>)

simplify_with_corner_preservation(bk, P, eps, angle_thr) ==
    LET idx == preserved_indices(bk, P, eps, angle_thr)
    IN  [j \in 1..Len(idx) |-> P[idx[j] + 1]]

InitDetect ==
    /\ pc = "start"
    /\ raised = "None"
    /\ points \in Polylines
    /\ angle_threshold \in AngleThresholds
    /\ backend = "geo"
    /\ epsilon = <<0, 2>>
    /\ keptIdx = <<>>
    /\ simplified = <<>>
    /\ resimplified = <<>>
    /\ epsilon2 = <<0, 2>>
    /\ coarser = <<>>
    /\ corner_indices = <<>>
    /\ preservedIdx = <<>>
    /\ preserved = <<>>
    /\ paths = <<>>
    /\ OrderIdle
    /\ AssembleIdle
    /\ StageIdle
    /\ TransformIdle
    /\ AliasIdle
    /\ ServerIdle
    /\ TimeIdle

DetectCorners ==
    /\ pc = "start"
    /\ corner_indices' = detect_corners(points, angle_threshold)
    /\ pc' = "detected"
    /\ UNCHANGED <<raised, simplifierVars, paths, orderVars, assembleVars,
                   timeVars, angle_threshold, preservedIdx, preserved>>
    /\ UNCHANGED stageVars
    /\ UNCHANGED transformVars
    /\ UNCHANGED aliasVars
    /\ UNCHANGED serverVars

NextDetect == DetectCorners

SpecDetect == InitDetect /\ [][NextDetect]_vars

\* the lattice points the polylines of the corner-preserving simplification
\* are drawn over
CornerGridList == << <<0, 0>>, <<1, 0>>, <<2, 0>>, <<1, 1>>, <<2, 2>>, <<0, 1>> >>

CornerGrid == {CornerGridList[i] : i \in 1..CornerGridPoints}

CornerPolylines == UNION {[1..n -> CornerGrid] : n \in 0..MaxLen}

\* the tolerances of EpsSet and a negative one
EpsCorners == EpsSet \cup {<<-1, 2>>}

\* the thresholds of the corner-preserving simplification
PreserveThresholds == {-30, DefaultCornerThreshold, 150}

InitCorners ==
    /\ pc = "start"
    /\ raised = "None"
    /\ backend \in Backends
    /\ points \in CornerPolylines
    /\ epsilon \in EpsCorners
    /\ angle_threshold \in PreserveThresholds
    /\ keptIdx = <<>>
    /\ simplified = <<>>
    /\ resimplified = <<>>
    /\ epsilon2 = epsilon
    /\ coarser = <<>>
    /\ corner_indices = <<>>
    /\ preservedIdx = <<>>
    /\ preserved = <<>>
    /\ paths = <<>>
    /\ OrderIdle
    /\ AssembleIdle
    /\ StageIdle
    /\ TransformIdle
    /\ AliasIdle
    /\ ServerIdle
    /\ TimeIdle

\* simplify_with_corner_preservation(points, angle_threshold), with the
\* corner_indices it computed, and simplify_path(points) of the same
\* simplifier
PreserveCorners ==
    /\ pc = "start"
    /\ corner_indices' = IF Len(points) < 3 THEN <<>>
                         ELSE detect_corners(points, angle_threshold)
    /\ LET idx == preserved_indices(backend, points, epsilon, angle_threshold)
       IN  /\ preservedIdx' = [j \in 1..Len(idx) |-> idx[j] + 1]
           /\ preserved' = [j \in 1..Len(idx) |-> points[idx[j] + 1]]
    /\ simplified' = simplify_path(backend, points, epsilon)
    /\ keptIdx' = kept_indices(backend, points, epsilon)
    /\ pc' = "preserved"
    /\ UNCHANGED <<raised, backend, points, epsilon, resimplified, epsilon2,
                   coarser, paths, orderVars, assembleVars, timeVars,
                   angle_threshold>>
    /\ UNCHANGED stageVars
    /\ UNCHANGED transformVars
    /\ UNCHANGED aliasVars
    /\ UNCHANGED serverVars

NextCorners == PreserveCorners

SpecCorners == InitCorners /\ [][NextCorners]_vars

----------------------------------------------------------------------------
(* The stages one after the other on one stroke set: simplify_paths,
   calculate_transition_stats, optimize_stroke_order, add_transitions,
   CoordinateTransformer.path_to_gps and calculate_mission_time, each on
   what the stage before it returned. *)

\* optimize_stroke_order as a whole: "while remaining" of
\* _nearest_neighbor_order
RECURSIVE nn_while(_, _)
nn_while(ord, rem) ==
    IF rem = <<>> THEN ord
    ELSE LET next == add_nearest(ord, rem, nearest_idx_of(ord, rem))
         IN  nn_while(next[1], next[2])

nearest_neighbor_order(strokes) ==
    IF strokes = <<>> THEN <<>>
    ELSE nn_while(<<strokes[1]>>, Tail(strokes))

optimize_stroke_order(strokes, m) ==
    IF m = "original" \/ Len(strokes) <= 1 THEN strokes
    ELSE IF m = "nearest_neighbor" THEN nearest_neighbor_order(strokes)
    ELSE strokes

\* _point_distance, exactly: the square root of the squared distance
point_distance(p, q) == SurdSqrt(<<SqDist(p, q), 1>>)

RECURSIVE SurdSum(_)
SurdSum(ds) == IF ds = <<>> THEN {} ELSE SurdAdd(Head(ds), SurdSum(Tail(ds)))

\* max(distances): the distance of the largest squared distance
MaxDistance(strokes) ==
    LET sq(i) == SqDist(strokes[i - 1][Len(strokes[i - 1])], strokes[i][1])
        top   == CHOOSE i \in 2..Len(strokes) :
                     \A j \in 2..Len(strokes) : sq(j) <= sq(i)
    IN  SurdSqrt(<<sq(top), 1>>)

calculate_transition_stats(strokes) ==
    IF Len(strokes) <= 1
    THEN [num_transitions |-> 0, total_transition_distance |-> {},
          avg_transition_distance |-> {}, max_transition_distance |-> {}]
    ELSE LET distances ==
                 [i \in 1..(Len(strokes) - 1) |->
                     point_distance(strokes[i][Len(strokes[i])],
                                    strokes[i + 1][1])]
         IN  [num_transitions |-> Len(distances),
              total_transition_distance |-> SurdSum(distances),
              avg_transition_distance |->
                  SurdScale(<<1, Len(distances)>>, SurdSum(distances)),
              max_transition_distance |-> MaxDistance(strokes)]

\* CoordinateTransformer.__init__: cos_r and sin_r of a rotation by a
\* multiple of 90 degrees, taken exactly
Rotations == {0, 90}

Transformer_sincos(home_lat, home_lon, home_alt, rot) ==
    [home_lat |-> home_lat, home_lon |-> home_lon, home_alt |-> home_alt,
     rotation_deg |-> rot,
     cos_r |-> CASE rot = 0 -> 0 [] rot = 90 -> 1 [] rot = 180 -> 0
                 [] rot = 270 -> -1,
     sin_r |-> CASE rot = 0 -> 1 [] rot = 90 -> 0 [] rot = 180 -> -1
                 [] rot = 270 -> 0]

Transformer(home_lat, home_lon, home_alt, rot) ==
    [home_lat |-> home_lat, home_lon |-> home_lon, home_alt |-> home_alt,
     rotation_deg |-> rot,
     cos_r |-> CASE rot = 0 -> 1 [] rot = 90 -> 0 [] rot = 180 -> -1
                 [] rot = 270 -> 0,
     sin_r |-> CASE rot = 0 -> 0 [] rot = 90 -> 1 [] rot = 180 -> 0
                 [] rot = 270 -> -1]

\* pymap3d.enu2geodetic is not part of the sources: its latitude and
\* longitude are kept as the terms of their arguments
enu2geodetic(e, n, u, lat0, lon0, h0) ==
    <<<<"lat", e, n, u, lat0, lon0, h0>>, <<"lon", e, n, u, lat0, lon0, h0>>,
      <<"alt", e, n, u, lat0, lon0, h0>>>>

local_to_gps_msl(self, x, y, alt) ==
    LET rotated_x == IF self.rotation_deg # 0
                     THEN x * self.cos_r - y * self.sin_r ELSE x
        rotated_y == IF self.rotation_deg # 0
                     THEN x * self.sin_r + y * self.cos_r ELSE y
        geo == enu2geodetic(rotated_x, rotated_y, alt, self.home_lat,
                            self.home_lon, self.home_alt)
    IN  <<geo[1], geo[2], self.home_alt + alt>>

local_to_gps_clockwise(self, x, y, alt) ==
    LET rotated_x == IF self.rotation_deg # 0
                     THEN x * self.cos_r + y * self.sin_r ELSE x
        rotated_y == IF self.rotation_deg # 0
                     THEN y * self.cos_r - x * self.sin_r ELSE y
        geo == enu2geodetic(rotated_x, rotated_y, alt, self.home_lat,
                            self.home_lon, self.home_alt)
    IN  <<geo[1], geo[2], alt>>

local_to_gps(self, x, y, altitude) ==
    LET rotated_x == IF self.rotation_deg # 0
                     THEN x * self.cos_r - y * self.sin_r ELSE x
        rotated_y == IF self.rotation_deg # 0
                     THEN x * self.sin_r + y * self.cos_r ELSE y
        geo == enu2geodetic(rotated_x, rotated_y, altitude, self.home_lat,
                            self.home_lon, self.home_alt)
        alt_relative == altitude
    IN  <<geo[1], geo[2], alt_relative>>

path_to_gps(self, path, altitude) ==
    [k \in 1..Len(path) |-> local_to_gps(self, path[k][1], path[k][2], altitude)]

DefaultSpeed == 3    \* flight_speed_m_s=3.0
DefaultAccel == 3    \* acceleration_m_s2=3.0

StageStrokes ==
    {Split(P, C, 1, 1) :
        <<P, C>> \in {pc2 \in FlatPaths \X SUBSET (1..StageTotal) :
                         /\ Len(pc2[1]) <= StageTotal
                         /\ pc2[2] \subseteq 1..(Len(pc2[1]) - 1)}}

InitStages ==
    /\ pc = "start"
    /\ raised = "None"
    /\ paths \in StageStrokes
    /\ backend \in Backends
    /\ epsilon \in EpsSet
    /\ points = <<>>
    /\ keptIdx = <<>>
    /\ simplified = <<>>
    /\ resimplified = <<>>
    /\ epsilon2 = epsilon
    /\ coarser = <<>>
    /\ OrderIdle
    /\ AssembleIdle
    /\ StageIdle
    /\ TransformIdle
    /\ AliasIdle
    /\ ServerIdle
    /\ CornerIdle
    /\ TimeIdle

StageFrame ==
    UNCHANGED <<raised, paths, simplifierVars, method, ordered, remaining,
                write_altitude, transit_altitude, continuous_threshold,
                waypoints_default, waypoints, flight_speed_m_s,
                acceleration_m_s2, cut, head_estimate, tail_estimate,
                cornerVars, transformVars, aliasVars, serverVars>>

SimplifyPaths ==
    /\ pc = "start"
    /\ simplified_paths' = simplify_paths(backend, paths, epsilon)
    /\ pc' = "simplified"
    /\ StageFrame
    /\ UNCHANGED <<transition_stats, result, waypoints_3d, gps_path,
                   rotation_deg, estimate>>

TransitionStats ==
    /\ pc = "simplified"
    /\ transition_stats' = calculate_transition_stats(simplified_paths)
    /\ pc' = "stats"
    /\ StageFrame
    /\ UNCHANGED <<simplified_paths, result, waypoints_3d, gps_path,
                   rotation_deg, estimate>>

OptimizeStrokeOrder ==
    /\ pc = "stats"
    /\ result' = optimize_stroke_order(simplified_paths, "nearest_neighbor")
    /\ pc' = "ordered"
    /\ StageFrame
    /\ UNCHANGED <<simplified_paths, transition_stats, waypoints_3d, gps_path,
                   rotation_deg, estimate>>

\* add_transitions of a handler with the default altitudes' offset
AssembleOrdered ==
    /\ pc = "ordered"
    /\ waypoints_3d' = add_transitions(Handler(1, DefaultTransitOffset),
                                       result, "None")
    /\ pc' = "assembled"
    /\ StageFrame
    /\ UNCHANGED <<simplified_paths, transition_stats, result, gps_path,
                   rotation_deg, estimate>>

\* path_to_gps of the waypoints' (x, y) at the write altitude
PathToGps ==
    /\ pc = "assembled"
    /\ \E rot \in Rotations :
          /\ rotation_deg' = rot
          /\ gps_path' =
                 path_to_gps(Transformer(0, 0, 0, rot),
                             [k \in 1..Len(waypoints_3d) |->
                                 <<waypoints_3d[k][1], waypoints_3d[k][2]>>],
                             1)
    /\ pc' = "gps"
    /\ StageFrame
    /\ UNCHANGED <<simplified_paths, transition_stats, result, waypoints_3d,
                   estimate>>

\* every segment has a length this arithmetic holds exactly
ExactLengths(wps) ==
    \A i \in 1..(Len(wps) - 1) :
        LET n == Sq(wps[i + 1][1] - wps[i][1]) + Sq(wps[i + 1][2] - wps[i][2])
                   + Sq(wps[i + 1][3] - wps[i][3])
        IN  \E r \in 0..n : r * r = n

\* calculate_mission_time(waypoints_3d) with the default speed and
\* acceleration
MissionTime ==
    /\ pc = "gps"
    /\ ExactLengths(waypoints_3d)
    /\ estimate' = calculate_mission_time(waypoints_3d, DefaultSpeed,
                                          DefaultAccel)
    /\ pc' = "timed"
    /\ StageFrame
    /\ UNCHANGED <<simplified_paths, transition_stats, result, waypoints_3d,
                   gps_path, rotation_deg>>

NextStages ==
    \/ SimplifyPaths
    \/ TransitionStats
    \/ OptimizeStrokeOrder
    \/ AssembleOrdered
    \/ PathToGps
    \/ MissionTime

SpecStages == InitStages /\ [][NextStages]_vars

----------------------------------------------------------------------------
(* CoordinateTransformer.local_to_gps on one point, called again on the
   pair the call before handed to the projection. *)

LocalCoords == (-MaxCoord)..MaxCoord

AltitudeArgs == {0, 30}

Homes ==
    {[home_lat |-> 47, home_lon |-> 8, home_alt |-> h] : h \in {0, 488}}

RotationArgs == {0, 90, 180, 270}

\* the (e, n) a local_to_gps result was projected from
ProjectedPair(gps) == <<gps[1][2], gps[1][3]>>

InitTransform ==
    /\ pc = "start"
    /\ raised = "None"
    /\ paths = <<>>
    /\ SimplifierIdle
    /\ OrderIdle
    /\ AssembleIdle
    /\ CornerIdle
    /\ TimeIdle
    /\ simplified_paths = <<>>
    /\ transition_stats = NoStats
    /\ gps_path = <<>>
    /\ rotation_deg \in RotationArgs
    /\ home \in Homes
    /\ local_xy \in LocalCoords \X LocalCoords
    /\ altitude_m \in AltitudeArgs
    /\ gps_point = <<>>
    /\ turns = 0
    /\ bbox = <<0, 0, 0, 0>>
    /\ AliasIdle
    /\ ServerIdle

TransformFrame ==
    UNCHANGED <<raised, paths, simplifierVars, orderVars, assembleVars,
                timeVars, cornerVars, stageVars, home, local_xy, altitude_m,
                bbox, aliasVars, serverVars>>

\* transformer = CoordinateTransformer(home_lat, home_lon, home_alt,
\* rotation_deg); transformer.local_to_gps(x, y, altitude)
LocalToGps ==
    /\ pc = "start"
    /\ gps_point' =
           local_to_gps(Transformer(home.home_lat, home.home_lon,
                                    home.home_alt, rotation_deg),
                        local_xy[1], local_xy[2], altitude_m)
    /\ turns' = 1
    /\ pc' = "converted"
    /\ TransformFrame

\* local_to_gps of the same transformer on the rotated pair
LocalToGpsAgain ==
    /\ pc = "converted"
    /\ turns < MaxTurns
    /\ gps_point' =
           local_to_gps(Transformer(home.home_lat, home.home_lon,
                                    home.home_alt, rotation_deg),
                        ProjectedPair(gps_point)[1],
                        ProjectedPair(gps_point)[2], altitude_m)
    /\ turns' = turns + 1
    /\ pc' = "converted"
    /\ TransformFrame

NextTransform == LocalToGps \/ LocalToGpsAgain

SpecTransform == InitTransform /\ [][NextTransform]_vars

----------------------------------------------------------------------------
(* CoordinateTransformer.get_bounds on a list of paths. *)

MinOf(S) == CHOOSE m \in S : \A n \in S : m <= n

MaxOf(S) == CHOOSE m \in S : \A n \in S : n <= m

get_bounds_corners(strokes) ==
    LET all_points == Flatten(strokes)
        xs == {all_points[k][1] : k \in 1..Len(all_points)}
        ys == {all_points[k][2] : k \in 1..Len(all_points)}
    IN  IF all_points = <<>> THEN <<0, 0, 0, 0>>
        ELSE <<MinOf(xs), MinOf(ys), MaxOf(xs), MaxOf(ys)>>

get_bounds(strokes) ==
    LET all_points == Flatten(strokes)
        xs == {all_points[k][1] : k \in 1..Len(all_points)}
        ys == {all_points[k][2] : k \in 1..Len(all_points)}
    IN  IF all_points = <<>> THEN <<0, 0, 0, 0>>
        ELSE <<MinOf(xs), MaxOf(xs), MinOf(ys), MaxOf(ys)>>

BoundsPointList == << <<-1, 2>>, <<3, -4>>, <<1, 1>>, <<-2, -1>>, <<0, 5>> >>

BoundsGrid == {BoundsPointList[k] : k \in 1..BoundsPoints}

\* paths of 0 to 2 points, the empty path among them
BoundsStrokes == UNION {[1..n -> BoundsGrid] : n \in 0..2}

BoundsPaths == UNION {[1..n -> BoundsStrokes] : n \in 0..BoundsPathCount}

InitBounds ==
    /\ pc = "start"
    /\ raised = "None"
    /\ paths \in BoundsPaths
    /\ SimplifierIdle
    /\ OrderIdle
    /\ AssembleIdle
    /\ StageIdle
    /\ TransformIdle
    /\ AliasIdle
    /\ ServerIdle
    /\ CornerIdle
    /\ TimeIdle

GetBounds ==
    /\ pc = "start"
    /\ bbox' = get_bounds(paths)
    /\ pc' = "bounded"
    /\ UNCHANGED <<raised, paths, simplifierVars, orderVars, assembleVars,
                   timeVars, cornerVars, stageVars, home, local_xy,
                   altitude_m, gps_point, turns, aliasVars, serverVars>>

NextBounds == GetBounds

SpecBounds == InitBounds /\ [][NextBounds]_vars

----------------------------------------------------------------------------
(* The operations on lists as objects.  heap[a] is the list at address a: a
   stroke is a list of points, a stroke set a list of the addresses of its
   strokes.  An operation that builds a list puts a new object on the heap;
   one that appends to, pops from or reverses a list changes the object. *)

\* the strokes of the stroke set at address a
Deref(h, a) == [i \in 1..Len(h[a]) |-> h[h[a][i]]]

\* the caller's strokes and the list that holds them
CallerHeap(strokes) ==
    Append(strokes, [i \in 1..Len(strokes) |-> i])

\* "Add nearest path" with path.reverse() in place of list(reversed(path))
nn_add_nearest_inplace(h, o, r, nearest_idx) ==
    IF nearest_idx < 0
    THEN LET path_idx == -nearest_idx - 1
             a == h[r][path_idx + 1]
         IN  [h EXCEPT ![a] = Reverse(@),
                       ![o] = Append(@, a),
                       ![r] = RemoveAt(@, path_idx + 1)]
    ELSE [h EXCEPT ![o] = Append(@, h[r][nearest_idx + 1]),
                   ![r] = RemoveAt(@, nearest_idx + 1)]

\* "Add nearest path": ordered.append(list(reversed(remaining[path_idx])))
\* or ordered.append(remaining[nearest_idx]), then remaining.pop(..);
\* ordered is the list at o, remaining the list at r
nn_add_nearest(h, o, r, nearest_idx) ==
    IF nearest_idx < 0
    THEN LET path_idx == -nearest_idx - 1
             h2 == Append(h, Reverse(h[h[r][path_idx + 1]]))
         IN  [h2 EXCEPT ![o] = Append(@, Len(h2)),
                        ![r] = RemoveAt(@, path_idx + 1)]
    ELSE [h EXCEPT ![o] = Append(@, h[r][nearest_idx + 1]),
                   ![r] = RemoveAt(@, nearest_idx + 1)]

\* "while remaining"
RECURSIVE nn_heap_while(_, _, _)
nn_heap_while(h, o, r) ==
    IF h[r] = <<>> THEN h
    ELSE nn_heap_while(
             nn_add_nearest(h, o, r, nearest_idx_of(Deref(h, o), Deref(h, r))),
             o, r)

\* _nearest_neighbor_order(paths) on the list at address a:
\* <<heap, address of the returned list>>
nn_heap(h, a) ==
    IF h[a] = <<>> THEN <<Append(h, <<>>), Len(h) + 1>>
    ELSE LET o == Len(h) + 1      \* ordered = [paths[0]]
             r == Len(h) + 2      \* remaining = list(paths[1:])
             h2 == h \o << <<h[a][1]>>, Tail(h[a]) >>
         IN  <<nn_heap_while(h2, o, r), o>>

\* optimize_stroke_order(paths, method) on the list at address a
optimize_heap(h, a, m) ==
    IF m = "original" \/ Len(h[a]) <= 1 THEN <<h, a>>
    ELSE IF m = "nearest_neighbor" THEN nn_heap(h, a)
    ELSE <<h, a>>

\* simplify_path(points) on the stroke at address a: the argument itself
\* when it has fewer than 3 points, else the list simplify_coords built
simplify_path_heap(h, a, bk, eps) ==
    IF Len(h[a]) < 3 THEN <<h, a>>
    ELSE <<Append(h, simplify_path(bk, h[a], eps)), Len(h) + 1>>

\* simplify_with_corner_preservation(points) on the stroke at address a:
\* slices and the flattened list are new lists
corner_preservation_heap(h, a, bk, eps, angle_thr) ==
    IF Len(h[a]) < 3 THEN <<h, a>>
    ELSE <<Append(h, simplify_with_corner_preservation(bk, h[a], eps, angle_thr)),
           Len(h) + 1>>

\* add_transitions(paths) on the list at address a: waypoints_3d is a new list
add_transitions_heap(h, a, self, threshold) ==
    <<Append(h, add_transitions(self, Deref(h, a), threshold)), Len(h) + 1>>

InitAlias ==
    /\ pc = "start"
    /\ raised = "None"
    /\ paths \in StageStrokes
    /\ backend \in Backends
    /\ epsilon \in EpsSet
    /\ points = <<>>
    /\ keptIdx = <<>>
    /\ simplified = <<>>
    /\ resimplified = <<>>
    /\ epsilon2 = epsilon
    /\ coarser = <<>>
    /\ OrderIdle
    /\ AssembleIdle
    /\ StageIdle
    /\ TransformIdle
    /\ CornerIdle
    /\ TimeIdle
    /\ heap = CallerHeap(paths)
    /\ paths_ref = Len(paths) + 1
    /\ returned = 0
    /\ op = "none"
    /\ ServerIdle

AliasFrame ==
    UNCHANGED <<raised, paths, simplifierVars, ordered, remaining, result,
                assembleVars, timeVars, cornerVars, stageVars, transformVars,
                paths_ref, serverVars>>

CallSimplifyPath ==
    /\ pc = "start"
    /\ \E k \in 1..Len(paths) :
          LET call == simplify_path_heap(heap, heap[paths_ref][k], backend, epsilon)
          IN  heap' = call[1] /\ returned' = call[2]
    /\ op' = "simplify_path"
    /\ pc' = "returned"
    /\ AliasFrame
    /\ UNCHANGED method

CallCornerPreservation ==
    /\ pc = "start"
    /\ \E k \in 1..Len(paths) :
          LET call == corner_preservation_heap(heap, heap[paths_ref][k], backend,
                                               epsilon, DefaultCornerThreshold)
          IN  heap' = call[1] /\ returned' = call[2]
    /\ op' = "simplify_with_corner_preservation"
    /\ pc' = "returned"
    /\ AliasFrame
    /\ UNCHANGED method

CallOptimizeStrokeOrder ==
    /\ pc = "start"
    /\ \E m \in Methods :
          LET call == optimize_heap(heap, paths_ref, m)
          IN  heap' = call[1] /\ returned' = call[2] /\ method' = m
    /\ op' = "optimize_stroke_order"
    /\ pc' = "returned"
    /\ AliasFrame

CallAddTransitions ==
    /\ pc = "start"
    /\ LET call == add_transitions_heap(heap, paths_ref,
                                        Handler(1, DefaultTransitOffset), "None")
       IN  heap' = call[1] /\ returned' = call[2]
    /\ op' = "add_transitions"
    /\ pc' = "returned"
    /\ AliasFrame
    /\ UNCHANGED method

NextAlias ==
    \/ CallSimplifyPath
    \/ CallCornerPreservation
    \/ CallOptimizeStrokeOrder
    \/ CallAddTransitions

SpecAlias == InitAlias /\ [][NextAlias]_vars

----------------------------------------------------------------------------
(* The GUI server (src/skyink/gui_server.py): the process-wide
   latest_mission, /preview and /generate.  A request is handled in the
   steps that read or write latest_mission; between two steps of one request
   another request may take steps when requests are handled concurrently.
   generate_preview stands for the pipeline above: the waypoints it returns
   are kept as terms of the text and the home latitude. *)

NoBody == [json |-> FALSE, text |-> "", lat |-> "", format |-> ""]

\* 'stats': {} and the absent key 'params'
NoStatsYet == [text |-> "", total_waypoints |-> 0]

NoParams == [present |-> FALSE, text |-> "", lat |-> ""]

NoRequest ==
    [kind |-> "none", at |-> "idle", body |-> NoBody, waypoints |-> <<>>,
     stats |-> NoStatsYet, params |-> NoParams, response |-> <<0, "">>,
     wrote |-> {}]

\* latest_mission = {'waypoints': [], 'plan_file': None, 'stats': {}}:
\* the key 'params' is absent
InitialMission ==
    [waypoints |-> <<>>, plan_file |-> {}, stats |-> NoStatsYet,
     params |-> NoParams]

\* how many waypoints the strokes of a text give; "~" has no glyph
Glyphs(text) == CASE text = "A" -> 2 [] text = "B" -> 1 [] OTHER -> 0

\* generate_preview(text, lat, ..): <<gps_waypoints, stats>>
generate_preview(text, lat) ==
    <<[k \in 1..Glyphs(text) |-> <<text, lat, k>>],
      [text |-> text, total_waypoints |-> Glyphs(text)]>>

\* the JSON bodies of /preview: none at all, a blank text, a latitude that
\* float() rejects, a text without strokes, texts with strokes
PreviewBodies ==
    {[NoBody EXCEPT !.text = "A", !.lat = "47"]}
      \cup {[json |-> TRUE, text |-> t, lat |-> "47", format |-> ""] :
                t \in {"A", "B", "~", " "}}
      \cup {[json |-> TRUE, text |-> "A", lat |-> "x", format |-> ""]}

SupportedFormats == {"plan", "kml", "csv", "waypoint", "geojson"}

GenerateBodies ==
    {[NoBody EXCEPT !.json = TRUE, !.format = f] : f \in {"plan", "kml", "bogus"}}

\* the error of a /preview that fails, "None" for one that does not
preview_error(body) ==
    IF ~body.json THEN "No JSON data received"
    ELSE IF body.text = " " THEN "Text cannot be empty"
    ELSE IF body.lat = "x" THEN "could not convert string to float"
    ELSE "None"

NoWaypointsError == "No waypoints to generate. Create a preview first."

InProgress(r) == requests[r].kind # "none" /\ requests[r].at # "done"

ServerFrame ==
    UNCHANGED <<pc, raised, paths, simplifierVars, orderVars, assembleVars,
                timeVars, cornerVars, stageVars, transformVars, aliasVars>>

InitServer(slots) ==
    /\ pc = "serving"
    /\ raised = "None"
    /\ paths = <<>>
    /\ SimplifierIdle
    /\ OrderIdle
    /\ AssembleIdle
    /\ StageIdle
    /\ TransformIdle
    /\ AliasIdle
    /\ CornerIdle
    /\ TimeIdle
    /\ latest_mission = InitialMission
    /\ requests = [r \in 1..slots |-> NoRequest]
    /\ files = {}

Begin(kind, body) ==
    [NoRequest EXCEPT !.kind = kind, !.at = "begin", !.body = body]

\* a request arrives while no other is being handled
ArriveInTurn(r) ==
    /\ requests[r].kind = "none"
    /\ IF r = 1 THEN TRUE ELSE requests[r - 1].kind # "none"
    /\ \A q \in DOMAIN requests : ~InProgress(q)
    /\ \/ \E body \in PreviewBodies :
             requests' = [requests EXCEPT ![r] = Begin("preview", body)]
       \/ \E body \in GenerateBodies :
             requests' = [requests EXCEPT ![r] = Begin("generate", body)]
    /\ UNCHANGED <<latest_mission, files>>
    /\ ServerFrame

\* a request arrives, whatever the other requests are doing
Arrive(r) ==
    /\ requests[r].kind = "none"
    /\ IF r = 1 THEN TRUE ELSE requests[r - 1].kind # "none"
    /\ \/ \E t \in {"A", "B"} :
             requests' = [requests EXCEPT ![r] =
                 Begin("preview", [json |-> TRUE, text |-> t, lat |-> "47",
                                   format |-> ""])]
       \/ requests' = [requests EXCEPT ![r] =
                 Begin("generate", [NoBody EXCEPT !.json = TRUE,
                                                  !.format = "plan"])]
    /\ UNCHANGED <<latest_mission, files>>
    /\ ServerFrame

\* preview(): request.json, the checks, float(..), generate_preview(..)
PreviewCompute(r) ==
    /\ requests[r].kind = "preview"
    /\ requests[r].at = "begin"
    /\ LET body == requests[r].body
           made == generate_preview(body.text, body.lat)
       IN  requests' =
               IF preview_error(body) # "None"
               THEN [requests EXCEPT ![r].at = "done",
                                     ![r].response = <<400, preview_error(body)>>]
               ELSE [requests EXCEPT ![r].at = "store_waypoints",
                                     ![r].waypoints = made[1],
                                     ![r].stats = made[2],
                                     ![r].params = [present |-> TRUE,
                                                    text |-> body.text,
                                                    lat |-> body.lat]]
    /\ UNCHANGED <<latest_mission, files>>
    /\ ServerFrame

\* latest_mission['waypoints'] = waypoints
PreviewStoreWaypoints(r) ==
    /\ requests[r].kind = "preview"
    /\ requests[r].at = "store_waypoints"
    /\ latest_mission' = [latest_mission EXCEPT !.waypoints = requests[r].waypoints]
    /\ requests' = [requests EXCEPT ![r].at = "store_stats"]
    /\ UNCHANGED files
    /\ ServerFrame

\* latest_mission['stats'] = stats
PreviewStoreStats(r) ==
    /\ requests[r].kind = "preview"
    /\ requests[r].at = "store_stats"
    /\ latest_mission' = [latest_mission EXCEPT !.stats = requests[r].stats]
    /\ requests' = [requests EXCEPT ![r].at = "store_params"]
    /\ UNCHANGED files
    /\ ServerFrame

\* latest_mission['params'] = {..}; return jsonify({'success': True, ..})
PreviewStoreParams(r) ==
    /\ requests[r].kind = "preview"
    /\ requests[r].at = "store_params"
    /\ latest_mission' = [latest_mission EXCEPT !.params = requests[r].params]
    /\ requests' = [requests EXCEPT ![r].at = "done",
                                    ![r].response = <<200, "success">>]
    /\ UNCHANGED files
    /\ ServerFrame

\* GenerateCheck without the check for waypoints
GenerateCheck_nocheck(r) ==
    /\ requests[r].kind = "generate"
    /\ requests[r].at = "begin"
    /\ requests' = [requests EXCEPT ![r].at = "read_params"]
    /\ UNCHANGED <<latest_mission, files>>
    /\ ServerFrame

\* generate_plan(): if not latest_mission['waypoints']: return .., 400
GenerateCheck(r) ==
    /\ requests[r].kind = "generate"
    /\ requests[r].at = "begin"
    /\ requests' =
           IF latest_mission.waypoints = <<>>
           THEN [requests EXCEPT ![r].at = "done",
                                 ![r].response = <<400, NoWaypointsError>>]
           ELSE [requests EXCEPT ![r].at = "read_params"]
    /\ UNCHANGED <<latest_mission, files>>
    /\ ServerFrame

\* params = latest_mission['params'], a KeyError when the key is absent
GenerateReadParams(r) ==
    /\ requests[r].kind = "generate"
    /\ requests[r].at = "read_params"
    /\ requests' =
           IF ~latest_mission.params.present
           THEN [requests EXCEPT ![r].at = "done",
                                 ![r].response = <<400, "'params'">>]
           ELSE [requests EXCEPT ![r].at = "read_waypoints",
                                 ![r].params = latest_mission.params]
    /\ UNCHANGED <<latest_mission, files>>
    /\ ServerFrame

\* waypoints = latest_mission['waypoints']
GenerateReadWaypoints(r) ==
    /\ requests[r].kind = "generate"
    /\ requests[r].at = "read_waypoints"
    /\ requests' = [requests EXCEPT ![r].at = "export",
                                    ![r].waypoints = latest_mission.waypoints]
    /\ UNCHANGED <<latest_mission, files>>
    /\ ServerFrame

\* the file an exporter writes: the waypoints, the home position and the
\* text of params, in the requested format
MissionFile(req) ==
    [waypoints |-> req.waypoints, params |-> req.params,
     format |-> req.body.format]

\* generator.generate_plan(..) or export_mission(..), which raises
\* ValueError for a format it does not know; latest_mission['plan_file']
GenerateExport(r) ==
    /\ requests[r].kind = "generate"
    /\ requests[r].at = "export"
    /\ IF requests[r].body.format \in SupportedFormats
       THEN /\ files' = files \cup {MissionFile(requests[r])}
            /\ latest_mission' =
                   [latest_mission EXCEPT !.plan_file = {MissionFile(requests[r])}]
            /\ requests' = [requests EXCEPT ![r].at = "done",
                                            ![r].wrote = {MissionFile(requests[r])},
                                            ![r].response = <<200, "success">>]
       ELSE /\ requests' = [requests EXCEPT ![r].at = "done",
                                            ![r].response = <<400, "Unsupported format">>]
            /\ UNCHANGED <<latest_mission, files>>
    /\ ServerFrame

Handle(r) ==
    \/ PreviewCompute(r)
    \/ PreviewStoreWaypoints(r)
    \/ PreviewStoreStats(r)
    \/ PreviewStoreParams(r)
    \/ GenerateCheck(r)
    \/ GenerateReadParams(r)
    \/ GenerateReadWaypoints(r)
    \/ GenerateExport(r)

\* requests handled one at a time
InitServerInTurn == InitServer(MaxRequests)

NextServerInTurn ==
    \E r \in 1..MaxRequests : ArriveInTurn(r) \/ Handle(r)

SpecServerInTurn == InitServerInTurn /\ [][NextServerInTurn]_vars

\* requests handled in threads
InitServerThreaded == InitServer(MaxThreads)

NextServerThreaded ==
    \E r \in 1..MaxThreads : Arrive(r) \/ Handle(r)

SpecServerThreaded == InitServerThreaded /\ [][NextServerThreaded]_vars

----------------------------------------------------------------------------
(* Properties of the simplifier, checked under SpecSimplify. *)

Last(s) == s[Len(s)]

Range(s) == {s[i] : i \in 1..Len(s)}

\* d <= eps and d > eps for a distance d given by its square d2, eps >= 0
WithinTol(d2, eps) == d2[1] * eps[2] * eps[2] <= eps[1] * eps[1] * d2[2]
BeyondTol(d2, eps) == ~WithinTol(d2, eps)

\* the elements of t at the indices in S, in order
RECURSIVE Pick(_, _, _)
Pick(t, S, i) ==
    IF i > Len(t) THEN <<>>
    ELSE (IF i \in S THEN <<t[i]>> ELSE <<>>) \o Pick(t, S, i + 1)

IsSubsequence(s, t) == \E S \in SUBSET (1..Len(t)) : s = Pick(t, S, 1)

\* C1: for an input of at least 2 points and any epsilon >= 0, the output of
\* simplify_path starts with the input's first point and ends with its last
C1_EndpointsPreserved ==
    (pc # "start" /\ Len(points) >= 2) =>
        /\ Len(simplified) >= 2
        /\ simplified[1] = points[1]
        /\ Last(simplified) = Last(points)

C1_Witness ==
    /\ pc = "simplified"
    /\ Len(points) >= 3
    /\ Len(simplified) < Len(points)
    /\ points[1] # Last(points)

\* the retained neighbours of an omitted index i
PrevKept(i) == CHOOSE a \in Range(keptIdx) :
                   a < i /\ \A k \in Range(keptIdx) : k < i => k <= a
NextKept(i) == CHOOSE b \in Range(keptIdx) :
                   b > i /\ \A k \in Range(keptIdx) : k > i => k >= b

Omitted == (1..Len(points)) \ Range(keptIdx)

\* the points simplify_coords kept because it split a sub-sequence at them
SplitPoints ==
    IF Len(points) < 3 \/ (backend = "geo" /\ epsilon[1] <= 0) THEN {}
    ELSE {keptIdx[i] : i \in 2..(Len(keptIdx) - 1)}

C3_Idempotent ==
    pc \in {"again", "done"} => resimplified = simplified

C3_Witness ==
    /\ pc = "again"
    /\ Len(simplified) >= 3
    /\ Len(simplified) < Len(points)
    /\ resimplified = simplified

\* C4: for tolerances epsilon <= epsilon2 the output for epsilon2 has no more
\* points than the output for epsilon
C4_Monotone ==
    pc = "done" => Len(coarser) <= Len(simplified)

C4_Witness ==
    /\ pc = "done"
    /\ RatGt(epsilon2, epsilon)
    /\ Len(coarser) >= 3
    /\ Len(coarser) < Len(simplified)

\* C5: the output of simplify_path is an order-preserving subsequence of the
\* input, so it never has more points than the input
C5_Subsequence ==
    /\ pc # "start" =>
          /\ IsSubsequence(simplified, points)
          /\ Len(simplified) <= Len(points)
    /\ pc = "done" =>
          /\ IsSubsequence(coarser, points)
          /\ Len(coarser) <= Len(points)

C5_Witness ==
    /\ pc = "simplified"
    /\ Len(points) = 4
    /\ Len(simplified) = 3
    /\ simplified[2] = points[3]

----------------------------------------------------------------------------
(* Properties of the stroke ordering, checked under SpecOrder. *)

\* the squared distance from e to the nearer end of stroke s
NearEnd(e, s) ==
    IF SqDist(e, Last(s)) < SqDist(e, s[1]) THEN SqDist(e, Last(s))
    ELSE SqDist(e, s[1])

\* the first stroke of rem that has an end nearest to e
FirstNearest(e, rem) ==
    CHOOSE j \in 1..Len(rem) :
        /\ \A k \in 1..Len(rem) : NearEnd(e, rem[j]) <= NearEnd(e, rem[k])
        /\ \A k \in 1..(j - 1) : NearEnd(e, rem[k]) > NearEnd(e, rem[j])

Without(s, j) == [i \in 1..(Len(s) - 1) |-> IF i < j THEN s[i] ELSE s[i + 1]]

C6_Step ==
    (pc = "loop" /\ remaining # <<>>) =>
        LET e    == Last(Last(ordered))
            j    == FirstNearest(e, remaining)
            back == SqDist(e, Last(remaining[j])) < SqDist(e, remaining[j][1])
        IN  /\ ordered' = Append(ordered, IF back THEN Reverse(remaining[j])
                                          ELSE remaining[j])
            /\ remaining' = Without(remaining, j)

\* C6: each step of the nearest-neighbour ordering appends the first remaining
\* stroke that has an end at minimum distance from the end of the last placed
\* stroke, reversed exactly when its end point is strictly nearer than its
\* start point, and removes it; the step is a function of the state
C6_NearestFirst == [][C6_Step]_vars

C6_Witness ==
    /\ pc = "loop"
    /\ Len(ordered) >= 2
    /\ Last(ordered) \notin Range(paths)
    /\ Len(remaining) >= 2
    /\ remaining[1] # remaining[2]
    /\ NearEnd(Last(Last(ordered)), remaining[1])
           = NearEnd(Last(Last(ordered)), remaining[2])

SameUpToReversal(s, t) == s = t \/ s = Reverse(t)

CountLike(seq, s) ==
    Cardinality({k \in 1..Len(seq) : SameUpToReversal(seq[k], s)})

\* C7: optimize_stroke_order(method='nearest_neighbor') returns as many strokes
\* as it was given, the first of them the first input stroke as given, and
\* every input stroke exactly once, as it was or wholly reversed (during the
\* loop: ordered followed by remaining)
C7_Permutation ==
    (method = "nearest_neighbor" /\ pc \in {"loop", "done"}) =>
        LET out == IF pc = "done" THEN result ELSE ordered \o remaining
        IN  /\ Len(out) = Len(paths)
            /\ Len(paths) > 0 => out[1] = paths[1]
            /\ \A k \in 1..Len(paths) :
                  CountLike(out, paths[k]) = CountLike(paths, paths[k])

C7_Witness ==
    /\ pc = "done"
    /\ method = "nearest_neighbor"
    /\ Len(paths) >= 3
    /\ result[2] # paths[2]
    /\ \E k \in 1..Len(result) : result[k] \notin Range(paths)

----------------------------------------------------------------------------
(* Properties of the assembly, checked under SpecAssemble. *)

\* stroke i starts where stroke i-1 ended, exactly
DuplicateJoin(strokes, i) == i > 1 /\ strokes[i][1] = Last(strokes[i - 1])

DuplicateJoins(strokes) == {i \in 1..Len(strokes) : DuplicateJoin(strokes, i)}

RECURSIVE SumLen(_, _)
SumLen(strokes, i) ==
    IF i > Len(strokes) THEN 0 ELSE Len(strokes[i]) + SumLen(strokes, i + 1)

\* the strokes' points in stroke order then point order, without the leading
\* point of each stroke that joins its predecessor exactly
RECURSIVE Joined(_, _)
Joined(strokes, i) ==
    IF i > Len(strokes) THEN <<>>
    ELSE (IF DuplicateJoin(strokes, i) THEN Tail(strokes[i]) ELSE strokes[i])
             \o Joined(strokes, i + 1)

Planar(wps) == [k \in 1..Len(wps) |-> <<wps[k][1], wps[k][2]>>]

\* C8: for strokes of at least one point each, add_transitions returns the
\* strokes' points in order without the leading point of each exact-duplicate
\* join; their number is the sum of the stroke lengths minus the number of
\* such joins, at least 1 for a non-empty stroke set, and 8 for the
\* demonstration's strokes of 3, 3 and 2 points
C8_Assembly ==
    /\ pc = "assembled" =>
          /\ Planar(waypoints_3d) = Joined(paths, 1)
          /\ Len(waypoints_3d)
                 = SumLen(paths, 1) - Cardinality(DuplicateJoins(paths))
          /\ paths # <<>> => Len(waypoints_3d) >= 1
    /\ DuplicateJoins(test_paths) = {}
    /\ Len(add_transitions(Handler(30, 10), test_paths, "None")) = 8

C8_Witness ==
    /\ pc = "assembled"
    /\ Len(paths) >= 3
    /\ \E i, j, k \in 2..Len(paths) :
          /\ DuplicateJoin(paths, i) /\ Len(paths[i]) = 1
          /\ DuplicateJoin(paths, j) /\ Len(paths[j]) > 1
          /\ ~DuplicateJoin(paths, k)
    /\ Len(waypoints_3d) = SumLen(paths, 1) - 2

----------------------------------------------------------------------------
(* Properties of the mission time estimate, checked under SpecTime. *)

Length3D(p, q) ==
    <<IntSqrt(Sq(q[1] - p[1]) + Sq(q[2] - p[2]) + Sq(q[3] - p[3])), 1>>

\* v * v / a, the length at which the profile changes
RegimeLength(v, a) == Rat(v * v, a)

Triangular(d, v, a) == RatLe(d, RegimeLength(v, a))

\* 2*sqrt(d/a) when d <= v*v/a, and 2*(v/a) + (d - v*v/a)/v otherwise
ProfileTime(d, v, a) ==
    IF Triangular(d, v, a)
    THEN SurdScale(<<2, 1>>, SurdSqrt(RatDiv(d, <<a, 1>>)))
    ELSE SurdOfRat(RatAdd(RatMul(<<2, 1>>, Rat(v, a)),
                          RatDiv(RatSub(d, RegimeLength(v, a)), <<v, 1>>)))

RECURSIVE SumLengths(_, _)
SumLengths(wps, i) ==
    IF i >= Len(wps) THEN <<0, 1>>
    ELSE RatAdd(Length3D(wps[i], wps[i + 1]), SumLengths(wps, i + 1))

RECURSIVE SumTimes(_, _, _, _)
SumTimes(wps, v, a, i) ==
    IF i >= Len(wps) THEN {}
    ELSE SurdAdd(ProfileTime(Length3D(wps[i], wps[i + 1]), v, a),
                 SumTimes(wps, v, a, i + 1))

\* C10: for v > 0 and a > 0 calculate_mission_time returns as
\* total_distance_m the sum of the 3D lengths of consecutive waypoint pairs
\* and as total_time_s the sum of the segments' times, a segment of length d
\* taking 2*sqrt(d/a) when d <= v*v/a and 2*(v/a) + (d - v*v/a)/v otherwise;
\* and the estimate of a path is the sum of the estimates of the two parts
\* it is cut into at any of its waypoints.
C10_MissionTime ==
    /\ pc \in {"timed", "cut"} =>
          /\ flight_speed_m_s > 0 /\ acceleration_m_s2 > 0
          /\ estimate.total_distance_m = SumLengths(waypoints, 1)
          /\ estimate.total_time_s =
                 SumTimes(waypoints, flight_speed_m_s, acceleration_m_s2, 1)
    /\ pc = "cut" =>
          /\ estimate.total_time_s =
                 SurdAdd(head_estimate.total_time_s, tail_estimate.total_time_s)
          /\ estimate.total_distance_m =
                 RatAdd(head_estimate.total_distance_m,
                        tail_estimate.total_distance_m)

\* a path with a climbing segment, a triangular and a trapezoidal segment and
\* an irrational total time, cut at an inner waypoint
C10_Witness ==
    /\ pc = "cut"
    /\ 1 < cut /\ cut < Len(waypoints)
    /\ \E i \in 1..(Len(waypoints) - 1) :
          /\ waypoints[i][3] # waypoints[i + 1][3]
          /\ waypoints[i][1] # waypoints[i + 1][1]
    /\ \E i, j \in 1..(Len(waypoints) - 1) :
          /\ Triangular(Length3D(waypoints[i], waypoints[i + 1]),
                        flight_speed_m_s, acceleration_m_s2)
          /\ Length3D(waypoints[i], waypoints[i + 1])[1] > 0
          /\ ~Triangular(Length3D(waypoints[j], waypoints[j + 1]),
                         flight_speed_m_s, acceleration_m_s2)
    /\ \E t \in estimate.total_time_s : t[1] # 1
    /\ head_estimate.total_time_s # {}
    /\ tail_estimate.total_time_s # {}

\* the trapezoidal formula on its own
TrapezoidTime(d, v, a) ==
    SurdOfRat(RatAdd(RatMul(<<2, 1>>, Rat(v, a)),
                     RatDiv(RatSub(d, RegimeLength(v, a)), <<v, 1>>)))

AtBoundary ==
    /\ Len(waypoints) = 2
    /\ Length3D(waypoints[1], waypoints[2])
           = RegimeLength(flight_speed_m_s, acceleration_m_s2)

\* C11: for one segment of length exactly v*v/a (v > 0, a > 0)
\* calculate_mission_time returns total_time_s = 2*(v/a), the value the
\* trapezoidal formula gives for that length too.
C11_BoundaryAgrees ==
    (pc \in {"timed", "cut"} /\ AtBoundary) =>
        /\ flight_speed_m_s > 0 /\ acceleration_m_s2 > 0
        /\ raised = "None"
        /\ estimate.total_time_s =
               SurdOfRat(RatMul(<<2, 1>>,
                                Rat(flight_speed_m_s, acceleration_m_s2)))
        /\ estimate.total_time_s =
               TrapezoidTime(Length3D(waypoints[1], waypoints[2]),
                             flight_speed_m_s, acceleration_m_s2)

C11_Witness ==
    /\ pc = "timed"
    /\ AtBoundary
    /\ flight_speed_m_s > 1
    /\ waypoints[1] # waypoints[2]

----------------------------------------------------------------------------
(* Properties of calculate_mission_time on any arguments, checked under
   SpecTimeArgs. *)

\* C12: with zero waypoints or one, calculate_mission_time raises nothing and
\* returns total_time_s = 0 and total_distance_m = 0, whatever the speed and
\* the acceleration are.
C12_FewWaypoints ==
    (pc \in {"timed", "cut"} /\ Len(waypoints) <= 1) =>
        /\ raised = "None"
        /\ estimate.total_time_s = {}
        /\ estimate.total_distance_m = <<0, 1>>

C12_Witness ==
    /\ pc = "timed"
    /\ Len(waypoints) = 1
    /\ flight_speed_m_s = 0
    /\ acceleration_m_s2 = 0
    /\ raised = "None"

\* C13: with a negative acceleration and two waypoints or more,
\* calculate_mission_time raises ConfigurationError and returns no estimate.
C13_NegativeAccelerationFails ==
    (pc \in {"timed", "cut"} /\ acceleration_m_s2 < 0 /\ Len(waypoints) >= 2) =>
        raised = "ConfigurationError"

----------------------------------------------------------------------------
(* Properties of the simplifier on any epsilon, checked under
   SpecSimplifyArgs. *)

\* C14: a PathSimplifier with a negative epsilon returns no simplified path:
\* constructing it or simplifying with it raises ConfigurationError.
C14_NegativeEpsilonFails ==
    (epsilon[1] < 0 /\ pc # "start") => raised = "ConfigurationError"

----------------------------------------------------------------------------
(* Properties of corner detection, checked under SpecDetect. *)

\* the turn at the point of index i: the change of direction from the
\* segment (i-1 -> i) to the segment (i -> i+1) exceeds deg degrees
TurnExceeds(P, i, deg) ==
    LET before == Minus(P[i + 1], P[i])
        after  == Minus(P[i + 2], P[i + 1])
    IN  /\ NormSq(before) # 0
        /\ NormSq(after) # 0
        /\ angle_exceeds(before, after, deg)

Interior(P) == 1..(Len(P) - 2)

\* C15: _detect_corners reports the interior index i exactly when the turn
\* angle at point i, 0 degrees for a straight continuation, exceeds the
\* threshold; an interior point of a straight run is then no corner for the
\* threshold 30, and a 90-degree bend is one.
C15_TurnAngle ==
    pc = "detected" =>
        \A i \in Interior(points) :
            i \in Range(corner_indices)
                <=> TurnExceeds(points, i, angle_threshold)

Degenerate(P, i) == P[i + 1] = P[i] \/ P[i + 1] = P[i + 2]

\* C19: an interior point with a zero-length segment to its predecessor or
\* to its successor is never reported as a corner, and nothing is raised.
C19_DegenerateSkipped ==
    pc = "detected" =>
        /\ raised = "None"
        /\ \A i \in Interior(points) :
              Degenerate(points, i) => i \notin Range(corner_indices)

C19_Witness ==
    /\ pc = "detected"
    /\ corner_indices # <<>>
    /\ \E i, j \in Interior(points) :
          /\ Degenerate(points, i)
          /\ ~Degenerate(points, j)

----------------------------------------------------------------------------
(* Properties of simplify_with_corner_preservation, checked under
   SpecCorners. *)

\* C16: for at least 3 points with a corner detected, the result is an
\* order-preserving subsequence of the input, each input position taken at
\* most once, that holds the first point, the last point and every detected
\* corner point.
C16_CornersPreserved ==
    (pc = "preserved" /\ Len(points) >= 3 /\ corner_indices # <<>>) =>
        /\ Len(preservedIdx) = Len(preserved)
        /\ \A k \in 1..Len(preserved) :
              /\ preservedIdx[k] \in 1..Len(points)
              /\ preserved[k] = points[preservedIdx[k]]
        /\ \A k \in 1..(Len(preservedIdx) - 1) :
              preservedIdx[k] < preservedIdx[k + 1]
        /\ preservedIdx[1] = 1
        /\ Last(preservedIdx) = Len(points)
        /\ \A k \in 1..Len(corner_indices) :
              corner_indices[k] + 1 \in Range(preservedIdx)

C16_Witness ==
    /\ pc = "preserved"
    /\ Len(points) >= 4
    /\ corner_indices # <<>>
    /\ Len(preserved) < Len(points)
    /\ epsilon[1] > 0

\* C17: when _detect_corners finds no corner, the result is what
\* simplify_path returns for the same input and epsilon.
C17_NoCornerIsPlain ==
    (pc = "preserved" /\ detect_corners(points, angle_threshold) = <<>>) =>
        preserved = simplified

C17_Witness ==
    /\ pc = "preserved"
    /\ Len(points) >= 3
    /\ detect_corners(points, angle_threshold) = <<>>
    /\ Len(simplified) < Len(points)
    /\ preserved = simplified

\* C18: with fewer than 3 points simplify_path and
\* simplify_with_corner_preservation both return the input unchanged and
\* raise nothing, whatever epsilon and the angle threshold are.
C18_ShortUnchanged ==
    (pc = "preserved" /\ Len(points) < 3) =>
        /\ raised = "None"
        /\ simplified = points
        /\ preserved = points

C18_Witness ==
    /\ pc = "preserved"
    /\ Len(points) = 2
    /\ epsilon[1] < 0
    /\ angle_threshold < 0
    /\ preserved = points

----------------------------------------------------------------------------
(* Properties of the stages in sequence, checked under SpecStages. *)

StagesFrom(stage) ==
    CASE stage = "simplified" ->
             {"simplified", "stats", "ordered", "assembled", "gps", "timed"}
      [] stage = "stats" -> {"stats", "ordered", "assembled", "gps", "timed"}
      [] stage = "ordered" -> {"ordered", "assembled", "gps", "timed"}
      [] stage = "assembled" -> {"assembled", "gps", "timed"}
      [] stage = "gps" -> {"gps", "timed"}
      [] stage = "timed" -> {"timed"}

\* C20: an empty stroke set goes through every stage without an error and
\* each stage returns an empty result: simplify_paths, optimize_stroke_order,
\* add_transitions and path_to_gps return [], calculate_transition_stats
\* reports zero transitions and calculate_mission_time zero time and zero
\* distance.
C20_EmptyThroughStages ==
    paths = <<>> =>
        /\ raised = "None"
        /\ pc \in StagesFrom("simplified") => simplified_paths = <<>>
        /\ pc \in StagesFrom("stats") =>
               /\ transition_stats.num_transitions = 0
               /\ transition_stats.total_transition_distance = {}
        /\ pc \in StagesFrom("ordered") => result = <<>>
        /\ pc \in StagesFrom("assembled") => waypoints_3d = <<>>
        /\ pc \in StagesFrom("gps") => gps_path = <<>>
        /\ pc \in StagesFrom("timed") =>
               /\ estimate.total_time_s = {}
               /\ estimate.total_distance_m = <<0, 1>>

C20_Witness ==
    /\ paths = <<>>
    /\ pc = "timed"
    /\ rotation_deg = 90
    /\ raised = "None"
    /\ gps_path = <<>>
    /\ estimate.total_distance_m = <<0, 1>>

----------------------------------------------------------------------------
(* Properties of the coordinate transformer, checked under SpecTransform. *)

Rot90(xy) == <<-xy[2], xy[1]>>

RECURSIVE RotTimes(_, _)
RotTimes(xy, n) == IF n = 0 THEN xy ELSE RotTimes(Rot90(xy), n - 1)

\* C22: with a non-zero rotation the pair handed to the projection is the
\* counter-clockwise rotation of (x, y) by that angle: (-y, x) at 90 degrees,
\* of the same squared norm, and (x, y) again after four rotations by 90
\* degrees.
C22_Rotation ==
    (pc = "converted" /\ rotation_deg # 0) =>
        /\ turns = 1 =>
              /\ ProjectedPair(gps_point) = RotTimes(local_xy, rotation_deg \div 90)
              /\ rotation_deg = 90 =>
                    ProjectedPair(gps_point) = <<-local_xy[2], local_xy[1]>>
        /\ NormSq(ProjectedPair(gps_point)) = NormSq(local_xy)
        /\ (turns = 4 /\ rotation_deg = 90) =>
              ProjectedPair(gps_point) = local_xy

C22_Witness ==
    /\ pc = "converted"
    /\ rotation_deg = 90
    /\ turns = 4
    /\ local_xy = <<1, -1>>
    /\ ProjectedPair(gps_point) = <<1, -1>>

\* C23: with rotation 0 the projection gets (x, y) itself, which is what the
\* rotation formula gives with the cos_r and sin_r of angle 0, so the result
\* is the plain projection of the point.
C23_ZeroRotation ==
    (pc = "converted" /\ rotation_deg = 0 /\ turns = 1) =>
        LET self == Transformer(home.home_lat, home.home_lon, home.home_alt, 0)
            x == local_xy[1]
            y == local_xy[2]
            plain == enu2geodetic(x, y, altitude_m, home.home_lat,
                                  home.home_lon, home.home_alt)
        IN  /\ gps_point = <<plain[1], plain[2], altitude_m>>
            /\ x * self.cos_r - y * self.sin_r = x
            /\ x * self.sin_r + y * self.cos_r = y

C23_Witness ==
    /\ pc = "converted"
    /\ rotation_deg = 0
    /\ turns = 1
    /\ local_xy = <<1, -1>>
    /\ ProjectedPair(gps_point) = <<1, -1>>

AllPoints(strokes) ==
    {strokes[i][k] : <<i, k>> \in
        {ik \in (1..Len(strokes)) \X (1..2) : ik[2] <= Len(strokes[ik[1]])}}

\* C24: get_bounds returns (min_x, max_x, min_y, max_y) over all points of
\* all paths: every point lies within the bounds and each bound is some
\* point's coordinate; without any point it returns (0, 0, 0, 0); for
\* [[(-1, 2), (3, -4)]] it returns (-1, 3, -4, 2).
C24_Bounds ==
    pc = "bounded" =>
        /\ AllPoints(paths) = {} => bbox = <<0, 0, 0, 0>>
        /\ \A p \in AllPoints(paths) :
              /\ bbox[1] <= p[1] /\ p[1] <= bbox[2]
              /\ bbox[3] <= p[2] /\ p[2] <= bbox[4]
        /\ AllPoints(paths) # {} =>
              /\ \E p \in AllPoints(paths) : p[1] = bbox[1]
              /\ \E p \in AllPoints(paths) : p[1] = bbox[2]
              /\ \E p \in AllPoints(paths) : p[2] = bbox[3]
              /\ \E p \in AllPoints(paths) : p[2] = bbox[4]
        /\ paths = << << <<-1, 2>>, <<3, -4>> >> >> => bbox = <<-1, 3, -4, 2>>

C24_Witness ==
    /\ pc = "bounded"
    /\ paths = << << <<-1, 2>>, <<3, -4>> >> >>
    /\ bbox = <<-1, 3, -4, 2>>

----------------------------------------------------------------------------
(* Properties of the operations on the caller's lists, checked under
   SpecAlias. *)

\* C25: after simplify_path, simplify_with_corner_preservation,
\* optimize_stroke_order and add_transitions return, the caller's list holds
\* the same strokes in the same order and every stroke the same points in
\* the same order as before the call.
C25_InputNotMutated ==
    pc = "returned" =>
        /\ heap[paths_ref] = [i \in 1..Len(paths) |-> i]
        /\ \A i \in 1..Len(paths) : heap[i] = paths[i]

C25_Witness ==
    /\ pc = "returned"
    /\ op = "optimize_stroke_order"
    /\ method = "nearest_neighbor"
    /\ returned # paths_ref
    /\ \E i \in 1..Len(heap[returned]) :
          /\ heap[returned][i] > paths_ref
          /\ \E j \in 1..Len(paths) :
                /\ heap[heap[returned][i]] = Reverse(paths[j])
                /\ Reverse(paths[j]) # paths[j]
    /\ Deref(heap, returned) = optimize_stroke_order(paths, method)
    /\ Deref(heap, paths_ref) = paths

----------------------------------------------------------------------------
(* The altitude-separated mode, checked under SpecAssemble. *)

\* C26: a handler configured for altitude-separated transitions (a transit
\* offset above the write altitude and a continuous_threshold given) has,
\* for strokes with a join that is not coordinate-equal, waypoints at
\* write_altitude + transit offset in the path add_transitions returns.
C26_TransitMode ==
    (/\ pc = "assembled"
     /\ continuous_threshold # "None"
     /\ transit_altitude > write_altitude
     /\ \E i \in 2..Len(paths) : ~DuplicateJoin(paths, i)) =>
        \E k \in 1..Len(waypoints_3d) : waypoints_3d[k][3] = transit_altitude

----------------------------------------------------------------------------
(* The transition distance of the returned order, checked under SpecOrder. *)

\* x >= 0 for x = a + b * sqrt(2)
SurdNonNeg(x) ==
    LET a == SurdCoef(x, 1)
        b == SurdCoef(x, 2)
        a2 == RatMul(a, a)
        b2 == RatMul(<<2, 1>>, RatMul(b, b))
    IN  IF a[1] >= 0 /\ b[1] >= 0 THEN TRUE
        ELSE IF a[1] <= 0 /\ b[1] <= 0 THEN FALSE
        ELSE IF a[1] >= 0 THEN RatLe(b2, a2)
        ELSE RatLe(a2, b2)

SurdLeq(x, y) == SurdNonNeg(SurdAdd(y, SurdScale(<<-1, 1>>, x)))

TotalTransition(strokes) ==
    calculate_transition_stats(strokes).total_transition_distance

\* C27: the total transition distance calculate_transition_stats reports for
\* the order optimize_stroke_order(method='nearest_neighbor') returns is at
\* most the one it reports for the input order.
C27_NeverWorse ==
    (pc = "done" /\ method = "nearest_neighbor") =>
        SurdLeq(TotalTransition(result), TotalTransition(paths))

----------------------------------------------------------------------------
(* Zero-length segments of the assembled path, checked under SpecAssemble. *)

NoRepeat(s) == \A k \in 1..(Len(s) - 1) : s[k] # s[k + 1]

\* C28: when every stroke is non-empty and no stroke has two consecutive
\* coordinate-equal points, no two consecutive waypoints add_transitions
\* returns are equal, also when a single-point stroke is dropped entirely at
\* a duplicate join.
C28_NoZeroLengthSegment ==
    (/\ pc = "assembled"
     /\ \A i \in 1..Len(paths) : paths[i] # <<>> /\ NoRepeat(paths[i])) =>
        NoRepeat(waypoints_3d)

C28_Witness ==
    /\ pc = "assembled"
    /\ Len(paths) = 3
    /\ \A i \in 1..3 : NoRepeat(paths[i])
    /\ Len(paths[2]) = 1
    /\ DuplicateJoin(paths, 2)
    /\ DuplicateJoin(paths, 3)
    /\ Len(waypoints_3d) = 3
    /\ NoRepeat(waypoints_3d)

----------------------------------------------------------------------------
(* Properties of the GUI server with requests handled one at a time, checked
   under SpecServerInTurn. *)

Succeeded(p) ==
    requests[p].kind = "preview" /\ requests[p].response = <<200, "success">>

\* the successful previews before request g
PreviewsBefore(g) == {p \in 1..(g - 1) : Succeeded(p)}

Generated(g) == requests[g].kind = "generate" /\ requests[g].at = "done"

\* the file /generate g writes from what preview p stored
FileOf(p, g) ==
    [waypoints |-> requests[p].waypoints, params |-> requests[p].params,
     format |-> requests[g].body.format]

Quiescent == \A r \in DOMAIN requests : ~InProgress(r)

\* latest_mission holds what the most recent successful preview stored
HoldsLatestPreview ==
    LET ok == PreviewsBefore(Len(requests) + 1)
    IN  IF ok = {}
        THEN /\ latest_mission.waypoints = <<>>
             /\ latest_mission.stats = NoStatsYet
             /\ latest_mission.params = NoParams
        ELSE /\ latest_mission.waypoints = requests[MaxOf(ok)].waypoints
             /\ latest_mission.stats = requests[MaxOf(ok)].stats
             /\ latest_mission.params = requests[MaxOf(ok)].params

----------------------------------------------------------------------------
(* Properties of the GUI server with requests handled in threads, checked
   under SpecServerThreaded. *)

\* C30: every /generate that reads latest_mission sees waypoints and params
\* that one /preview request stored; it never combines the waypoints of one
\* preview with the params of another, and never finds waypoints present
\* while params is absent.
C30_SamePreview ==
    \A g \in DOMAIN requests :
        requests[g].kind = "generate" =>
            /\ requests[g].response # <<400, "'params'">>
            /\ requests[g].at = "export" \/ requests[g].wrote # {} =>
                  \E p \in DOMAIN requests :
                      /\ requests[p].kind = "preview"
                      /\ requests[p].params.present
                      /\ requests[p].waypoints = requests[g].waypoints
                      /\ requests[p].params = requests[g].params

====
